---- MODULE Spec2Model ----
(***************************************************************************)
(* Model of the AllivanFresh WhatsApp ordering bot: the per-customer       *)
(* conversation record (step, cart, delivery snapshot, history), the       *)
(* message handler with its action batch, checkout, the delivery quoting   *)
(* functions and the recommendation graph.                                 *)
(*                                                                         *)
(* Every `await` on the database is a separate step of a handler, so two   *)
(* handlers of the same customer interleave exactly where the code can.    *)
(***************************************************************************)
EXTENDS Integers, Sequences, FiniteSets, TLC

(***************************************************************************)
(* Bounds of the model                                                     *)
(***************************************************************************)
MaxMessages == 2        \* inbound messages accepted in one behaviour
MaxBatch == 2           \* actions in one reply of the language step
MaxQty == 3             \* largest quantity of an addToCart call in CartSpec
MaxCalls == 3           \* service calls in one behaviour of CartSpec
MaxExpiries == 1        \* rows found expired in one behaviour
MaxRuns == 3            \* applications of a pure function in the function specs

Handlers == {"h1", "h2"}
FirstHandler == "h1"
Customers == {"c1"}

(***************************************************************************)
(* Catalog (prisma/seed.ts).  A product row keeps what the handlers read.  *)
(***************************************************************************)
ProductIds == {"tilapia", "broiler", "tomatoes"}
UnknownProduct == "ghost"
Null == -1              \* null / undefined of a numeric column

InitialProducts ==
  [p \in ProductIds |->
     IF p = "tilapia"
       THEN [basePrice |-> 600, category |-> "FISH", stockQuantity |-> Null,
             availability |-> "IN_STOCK", isActive |-> TRUE]
     ELSE IF p = "broiler"
       THEN [basePrice |-> 700, category |-> "CHICKEN", stockQuantity |-> Null,
             availability |-> "IN_STOCK", isActive |-> TRUE]
       ELSE [basePrice |-> 120, category |-> "VEGETABLES", stockQuantity |-> 3,
             availability |-> "IN_STOCK", isActive |-> TRUE]]

(***************************************************************************)
(* Conversation state (models/conversation-state.ts)                       *)
(***************************************************************************)
GREETING == "greeting"
BROWSING == "browsing"
CART_MANAGEMENT == "cart_management"
REQUESTING_LOCATION == "requesting_location"
CONFIRMING_ORDER == "confirming_order"
ORDER_PLACED == "order_placed"

\* undefined deliveryLocation is "", undefined numbers are Null,
\* undefined enums are "none"
getDefaultState ==
  [step |-> GREETING, cart |-> <<>>, deliveryLocation |-> "",
   deliveryDistanceKm |-> Null, deliveryFee |-> Null,
   deliveryFeeReason |-> "none", deliveryZone |-> "none"]

NoConversation == [exists |-> FALSE]

\* a row of the conversation table; `expired` is  new Date() > expiresAt
ConversationRow(state, history) ==
  [exists |-> TRUE, state |-> state, messageHistory |-> history, expired |-> FALSE]

VARIABLES
  conversation,   \* customerId -> conversation row or NoConversation
  product,        \* productId -> product row
  orders,         \* sequence of order rows, in creation order
  recommendation, \* <<productId, recommendedId>> -> strength, 0 when no row
  hs,             \* handler -> the locals of the message it is handling
  received,       \* number of inbound messages accepted so far
  cleared,        \* customerId -> what the rows clearState has deleted held
  fn              \* scratch record of the function specifications

vars == <<conversation, product, orders, recommendation, hs, received, cleared, fn>>

(***************************************************************************)
(* Delivery service (services/delivery.service.ts, the version kept in     *)
(* unnamed/part_001).  Distances handed to the fee functions are whole     *)
(* kilometres: the gazetteer holds integers, parseKmFromText uses          *)
(* parseInt, and the geocoded and GPS paths apply Math.round.  A           *)
(* coordinate is represented by its haversine distance from KISUMU_CENTER  *)
(* in tenths of a kilometre.                                               *)
(***************************************************************************)
ROAD_MULTIPLIER_TENTHS == 13          \* ROAD_MULTIPLIER = 1.3
MAX_TRUSTED_DISTANCE_KM == 100
TOWN_RADIUS_KM == 5
NEARBY_RADIUS_KM == 15
NEARBY_FEE == 100
FAR_RATE_PER_KM == 10
FAR_MINIMUM_ORDER == 5000
VEG_ONLY_DELIVERY_FEE == 250          \* BUSINESS_CONFIG.vegOnlyDeliveryFee

KNOWN_LOCATIONS ==
  << [name |-> "kondele", words |-> <<"kondele">>, distanceKm |-> 2],
     [name |-> "kibuye", words |-> <<"kibuye">>, distanceKm |-> 1],
     [name |-> "mamboleo", words |-> <<"mamboleo">>, distanceKm |-> 3],
     [name |-> "nyamasaria", words |-> <<"nyamasaria">>, distanceKm |-> 5],
     [name |-> "migosi", words |-> <<"migosi">>, distanceKm |-> 2],
     [name |-> "lolwe", words |-> <<"lolwe">>, distanceKm |-> 1],
     [name |-> "milimani", words |-> <<"milimani">>, distanceKm |-> 2],
     [name |-> "nyalenda", words |-> <<"nyalenda">>, distanceKm |-> 3],
     [name |-> "manyatta", words |-> <<"manyatta">>, distanceKm |-> 2],
     [name |-> "obunga", words |-> <<"obunga">>, distanceKm |-> 2],
     [name |-> "bandani", words |-> <<"bandani">>, distanceKm |-> 3],
     [name |-> "polyview", words |-> <<"polyview">>, distanceKm |-> 4],
     [name |-> "otonglo", words |-> <<"otonglo">>, distanceKm |-> 3],
     [name |-> "riat", words |-> <<"riat">>, distanceKm |-> 5],
     [name |-> "tom mboya", words |-> <<"tom", "mboya">>, distanceKm |-> 1],
     [name |-> "oginga odinga", words |-> <<"oginga", "odinga">>, distanceKm |-> 1],
     [name |-> "dunga", words |-> <<"dunga">>, distanceKm |-> 4],
     [name |-> "hippo point", words |-> <<"hippo", "point">>, distanceKm |-> 5],
     [name |-> "kisian", words |-> <<"kisian">>, distanceKm |-> 7],
     [name |-> "kajulu", words |-> <<"kajulu">>, distanceKm |-> 8],
     [name |-> "alendu", words |-> <<"alendu">>, distanceKm |-> 10],
     [name |-> "rabuor", words |-> <<"rabuor">>, distanceKm |-> 13],
     [name |-> "kibos", words |-> <<"kibos">>, distanceKm |-> 10],
     [name |-> "kopere", words |-> <<"kopere">>, distanceKm |-> 12],
     [name |-> "korando", words |-> <<"korando">>, distanceKm |-> 4],
     [name |-> "chiga", words |-> <<"chiga">>, distanceKm |-> 6],
     [name |-> "nyang'ande", words |-> <<"nyang'ande">>, distanceKm |-> 8],
     [name |-> "nyahera", words |-> <<"nyahera">>, distanceKm |-> 6],
     [name |-> "ojolla", words |-> <<"ojolla">>, distanceKm |-> 5],
     [name |-> "car wash", words |-> <<"car", "wash">>, distanceKm |-> 4],
     [name |-> "obambo", words |-> <<"obambo">>, distanceKm |-> 8],
     [name |-> "dago", words |-> <<"dago">>, distanceKm |-> 7],
     [name |-> "usoma", words |-> <<"usoma">>, distanceKm |-> 5],
     [name |-> "lwang'ni", words |-> <<"lwang'ni">>, distanceKm |-> 4],
     [name |-> "ahero", words |-> <<"ahero">>, distanceKm |-> 22],
     [name |-> "maseno", words |-> <<"maseno">>, distanceKm |-> 20],
     [name |-> "kombewa", words |-> <<"kombewa">>, distanceKm |-> 28],
     [name |-> "muhoroni", words |-> <<"muhoroni">>, distanceKm |-> 42],
     [name |-> "chemelil", words |-> <<"chemelil">>, distanceKm |-> 48],
     [name |-> "katito", words |-> <<"katito">>, distanceKm |-> 35],
     [name |-> "koru", words |-> <<"koru">>, distanceKm |-> 33],
     [name |-> "sondu", words |-> <<"sondu">>, distanceKm |-> 40],
     [name |-> "awasi", words |-> <<"awasi">>, distanceKm |-> 30],
     [name |-> "chemase", words |-> <<"chemase">>, distanceKm |-> 25],
     [name |-> "fort ternan", words |-> <<"fort", "ternan">>, distanceKm |-> 38],
     [name |-> "tamu", words |-> <<"tamu">>, distanceKm |-> 15],
     [name |-> "pap onditi", words |-> <<"pap", "onditi">>, distanceKm |-> 18],
     [name |-> "miwani", words |-> <<"miwani">>, distanceKm |-> 30],
     [name |-> "kibigori", words |-> <<"kibigori">>, distanceKm |-> 35],
     [name |-> "bondo", words |-> <<"bondo">>, distanceKm |-> 58],
     [name |-> "siaya", words |-> <<"siaya">>, distanceKm |-> 55],
     [name |-> "vihiga", words |-> <<"vihiga">>, distanceKm |-> 38],
     [name |-> "luanda", words |-> <<"luanda">>, distanceKm |-> 48],
     [name |-> "kendu bay", words |-> <<"kendu", "bay">>, distanceKm |-> 55],
     [name |-> "homa bay", words |-> <<"homa", "bay">>, distanceKm |-> 80],
     [name |-> "oyugis", words |-> <<"oyugis">>, distanceKm |-> 60],
     [name |-> "nandi hills", words |-> <<"nandi", "hills">>, distanceKm |-> 50],
     [name |-> "kapsabet", words |-> <<"kapsabet">>, distanceKm |-> 65],
     [name |-> "kakamega", words |-> <<"kakamega">>, distanceKm |-> 60],
     [name |-> "busia", words |-> <<"busia">>, distanceKm |-> 110],
     [name |-> "mumias", words |-> <<"mumias">>, distanceKm |-> 80] >>

\* String.prototype.toLowerCase on the words the inbound texts use
toLowerCase(w) ==
  CASE w = "Kondele" -> "kondele"
    [] w = "Kakamega" -> "kakamega"
    [] w = "Ahero" -> "ahero"
    [] w = "Tom" -> "tom"
    [] w = "Mboya" -> "mboya"
    [] w = "KM" -> "km"
    [] OTHER -> w

lowerText(words) == [i \in 1..Len(words) |-> toLowerCase(words[i])]

\* new RegExp(`\\b${name}\\b`, 'i').test(lowerText): the words of the name
\* occur as consecutive whole words of the text
nameMatches(nameWords, textWords) ==
  \E i \in 1..Len(textWords) :
     /\ i + Len(nameWords) - 1 <= Len(textWords)
     /\ \A k \in 1..Len(nameWords) : textWords[i + k - 1] = nameWords[k]

NotFound == [found |-> FALSE]

\* the first match in table order, the sort left out
longestMatch_unsorted(table, lower) ==
  LET matches == {i \in 1..Len(table) : nameMatches(table[i].words, lower)}
      entry(best) == [found |-> TRUE, name |-> table[best].name,
                      distanceKm |-> table[best].distanceKm]
  IN IF matches = {} THEN NotFound
     ELSE entry(CHOOSE i \in matches : \A j \in matches : i <= j)

\* matches.sort((a, b) => b[0].length - a[0].length)[0]: the sort is stable,
\* so among the longest names the first in table order wins
longestMatch(table, lower) ==
  LET matches == {i \in 1..Len(table) : nameMatches(table[i].words, lower)}
      longest(i) == \A j \in matches :
                       \/ Len(table[j].name) < Len(table[i].name)
                       \/ (Len(table[j].name) = Len(table[i].name) /\ i <= j)
      entry(best) == [found |-> TRUE, name |-> table[best].name,
                      distanceKm |-> table[best].distanceKm]
  IN IF matches = {} THEN NotFound
     ELSE entry(CHOOSE i \in matches : longest(i))

lookupKnownLocation(text) == longestMatch(KNOWN_LOCATIONS, lowerText(text))

\* parseInt of the digit words the inbound texts use
parseInt(w) ==
  CASE w = "0" -> 0
    [] w = "10" -> 10
    [] w = "20" -> 20
    [] w = "600" -> 600
    [] OTHER -> Null

isUnitWord(w) == toLowerCase(w) \in {"km", "kilometer", "kilometers", "kilometre", "kilometres", "kms"}

\* text.match(/(\d+)\s*(km|kilometers?|kilometres?|kms)/i): the first number
\* directly followed by a unit; only that match is range-checked
parseKmFromText(text) ==
  LET isMatch(i) == /\ i < Len(text)
                    /\ parseInt(text[i]) # Null
                    /\ isUnitWord(text[i + 1])
      found == {i \in 1..Len(text) : isMatch(i)}
      inRange(km) == IF km > 0 /\ km < 500 THEN km ELSE Null
  IN IF found = {} THEN Null
     ELSE inRange(parseInt(text[CHOOSE i \in found : \A j \in found : i <= j]))

getZone(distanceKm) ==
  IF distanceKm <= TOWN_RADIUS_KM THEN "town"
  ELSE IF distanceKm <= NEARBY_RADIUS_KM THEN "nearby"
  ELSE "far"

\* calculateFee with  <  in place of  <=  at the nearby radius
calculateFee_exclusive(distanceKm) ==
  IF distanceKm <= TOWN_RADIUS_KM THEN 0
  ELSE IF distanceKm < NEARBY_RADIUS_KM THEN NEARBY_FEE
  ELSE distanceKm * FAR_RATE_PER_KM

\* Math.round(distanceKm * 10) of a whole number of kilometres
calculateFee(distanceKm) ==
  IF distanceKm <= TOWN_RADIUS_KM THEN 0
  ELSE IF distanceKm <= NEARBY_RADIUS_KM THEN NEARBY_FEE
  ELSE distanceKm * FAR_RATE_PER_KM

(***************************************************************************)
(* Cart-aware part of the quote.  The controller calls classifyCart and    *)
(* passes its result to the three quote functions and reads feeReason      *)
(* from the quote; that version of the service is not among the sources,   *)
(* so the classification and the precedence of the fee policy follow the   *)
(* specification (sections 4.2 and 6).                                     *)
(***************************************************************************)
ANCHOR_CATEGORIES == {"FISH", "CHICKEN"}
CartContents == {"anchor", "vegOnly", "other"}

CategoryOf(productId) ==
  IF productId \in DOMAIN InitialProducts THEN InitialProducts[productId].category ELSE "NONE"

classifyCart(cart) ==
  IF \E i \in 1..Len(cart) : CategoryOf(cart[i].productId) \in ANCHOR_CATEGORIES THEN "anchor"
  ELSE IF Len(cart) > 0 /\ \A i \in 1..Len(cart) : CategoryOf(cart[i].productId) = "VEGETABLES"
    THEN "vegOnly"
  ELSE "other"

feeForCart(distanceKm, cartContents) ==
  IF getZone(distanceKm) = "town" /\ cartContents = "anchor"
    THEN [fee |-> 0, feeReason |-> "free_anchor"]
  ELSE IF cartContents = "vegOnly" /\ getZone(distanceKm) = "town"
    THEN [fee |-> VEG_ONLY_DELIVERY_FEE, feeReason |-> "veg_only_flat"]
  ELSE [fee |-> calculateFee(distanceKm), feeReason |-> "distance_based"]

\* the quote object the three paths build: zone, fee and, in the far zone,
\* minimumOrderRequired (Null when the field is not set)
getDeliveryQuoteFromDistance(distanceKm, locationName, cartContents) ==
  [found |-> TRUE, locationName |-> locationName, distanceKm |-> distanceKm,
   fee |-> feeForCart(distanceKm, cartContents).fee,
   feeReason |-> feeForCart(distanceKm, cartContents).feeReason,
   zone |-> getZone(distanceKm),
   minimumOrderRequired |-> IF getZone(distanceKm) = "far" THEN FAR_MINIMUM_ORDER ELSE Null]

\* Math.round(straightLineDistance * ROAD_MULTIPLIER), the straight line in
\* tenths of a kilometre; Math.round rounds halves up
roadDistance(straight10) == (straight10 * ROAD_MULTIPLIER_TENTHS + 50) \div 100

\* haversineDistance(KISUMU_CENTER, coordinate), in tenths of a kilometre
haversineDistance(coords) == coords.straight10

\* the closest of the candidates, the first one on a tie (dist < closestDistance)
findClosestToKisumu(results) ==
  IF Len(results) = 0 THEN NotFound
  ELSE [found |-> TRUE,
        straight10 |-> results[CHOOSE i \in 1..Len(results) :
                         \A j \in 1..Len(results) :
                            \/ haversineDistance(results[i]) < haversineDistance(results[j])
                            \/ (haversineDistance(results[i]) = haversineDistance(results[j])
                                /\ i <= j)].straight10]

\* geocodeLocation without the check against MAX_TRUSTED_DISTANCE_KM
geocodeLocation_unchecked(geo) ==
  IF ~geo.biased.ok THEN NotFound
  ELSE IF findClosestToKisumu(geo.biased.results).found
    THEN findClosestToKisumu(geo.biased.results)
  ELSE IF ~geo.broad.ok THEN NotFound
  ELSE findClosestToKisumu(geo.broad.results)

\* A geocoder exchange: the answer to the biased query and the answer to the
\* broad query; ok = FALSE is a non-OK status or a thrown fetch.
geocodeLocation(geo) ==
  LET retry(first) == IF first.found THEN first
                      ELSE IF ~geo.broad.ok THEN NotFound
                      ELSE findClosestToKisumu(geo.broad.results)
      sanityCheck(bestResult) ==
        IF ~bestResult.found THEN NotFound
        ELSE IF haversineDistance(bestResult) > MAX_TRUSTED_DISTANCE_KM * 10 THEN NotFound
        ELSE bestResult
  IN IF ~geo.biased.ok THEN NotFound
     ELSE sanityCheck(retry(findClosestToKisumu(geo.biased.results)))

\* getDeliveryQuote: gazetteer first, then the geocoder
getDeliveryQuote(text, cartContents, geo) ==
  LET quote(roadDistanceKm) ==
        [found |-> TRUE, locationName |-> text.id, distanceKm |-> roadDistanceKm,
         fee |-> feeForCart(roadDistanceKm, cartContents).fee,
         feeReason |-> feeForCart(roadDistanceKm, cartContents).feeReason,
         zone |-> getZone(roadDistanceKm),
         minimumOrderRequired |-> IF getZone(roadDistanceKm) = "far"
                                    THEN FAR_MINIMUM_ORDER ELSE Null]
      geocoded(coords) ==
        IF ~coords.found THEN NotFound
        ELSE quote(roadDistance(haversineDistance(coords)))
      gazetteer(known) ==
        IF known.found
          THEN getDeliveryQuoteFromDistance(known.distanceKm, text.id, cartContents)
          ELSE geocoded(geocodeLocation(geo))
  IN gazetteer(lookupKnownLocation(text.words))

\* getDeliveryQuoteFromCoords taking the fee from calculateFee alone
getDeliveryQuoteFromCoords_distanceOnly(coords, locationLabel, cartContents) ==
  LET quote(roadDistanceKm) ==
        [found |-> TRUE, locationName |-> locationLabel, distanceKm |-> roadDistanceKm,
         fee |-> calculateFee(roadDistanceKm),
         feeReason |-> "distance_based",
         zone |-> getZone(roadDistanceKm),
         minimumOrderRequired |-> IF getZone(roadDistanceKm) = "far"
                                    THEN FAR_MINIMUM_ORDER ELSE Null]
  IN quote(roadDistance(haversineDistance(coords)))

\* getDeliveryQuoteFromCoords: a shared location pin
getDeliveryQuoteFromCoords(coords, locationLabel, cartContents) ==
  LET quote(roadDistanceKm) ==
        [found |-> TRUE, locationName |-> locationLabel, distanceKm |-> roadDistanceKm,
         fee |-> feeForCart(roadDistanceKm, cartContents).fee,
         feeReason |-> feeForCart(roadDistanceKm, cartContents).feeReason,
         zone |-> getZone(roadDistanceKm),
         minimumOrderRequired |-> IF getZone(roadDistanceKm) = "far"
                                    THEN FAR_MINIMUM_ORDER ELSE Null]
  IN quote(roadDistance(haversineDistance(coords)))

(***************************************************************************)
(* Inbound inputs the model draws from                                     *)
(***************************************************************************)
Texts ==
  { [id |-> "near Kondele junction on Kakamega road",
     words |-> <<"near", "Kondele", "junction", "on", "Kakamega", "road">>],
    [id |-> "Ahero", words |-> <<"Ahero">>],
    [id |-> "Kondele", words |-> <<"Kondele">>],
    [id |-> "about 10 km", words |-> <<"about", "10", "km">>],
    [id |-> "my place", words |-> <<"my", "place">>] }

Coord(s10) == [straight10 |-> s10]
GeoFail == [ok |-> FALSE, results |-> <<>>]
GeoOk(results) == [ok |-> TRUE, results |-> results]
GeoAnswers ==
  { GeoFail, GeoOk(<<>>), GeoOk(<<Coord(30)>>), GeoOk(<<Coord(90)>>),
    GeoOk(<<Coord(1200), Coord(1000)>>), GeoOk(<<Coord(1001), Coord(1500)>>) }
GeoExchanges == [biased : GeoAnswers, broad : GeoAnswers]
NoGeo == [biased |-> GeoFail, broad |-> GeoFail]
NoText == [id |-> "", words |-> <<>>]

(***************************************************************************)
(* Conversation service (services/conversation.service.ts)                 *)
(***************************************************************************)
MAX_MESSAGE_HISTORY == 10

\* getState up to its delete: what it returns, and whether the row had expired.
\* `elapsed` is the outcome of  new Date() > conversation.expiresAt  when the
\* row has not been found expired before; a row once found expired stays
\* expired until a write moves expiresAt.  The window of a row elapses
\* between two messages: the read that opens a message is the first to find
\* it elapsed, the reads inside the service calls pass FALSE.
getState(customerId, elapsed) ==
  LET row == conversation[customerId]
  IN IF ~row.exists THEN [state |-> getDefaultState, expired |-> FALSE]
     ELSE IF row.expired \/ elapsed THEN [state |-> getDefaultState, expired |-> TRUE]
     ELSE [state |-> row.state, expired |-> FALSE]

\* the inputs `elapsed` a read of the row of customerId can get
Elapsed(customerId) ==
  IF conversation[customerId].exists /\ ~conversation[customerId].expired
     /\ cleared[customerId].count < MaxExpiries
    THEN BOOLEAN ELSE {FALSE}

\* the table after a read that found the row expired or not
afterRead(customerId, expired) ==
  IF expired THEN [conversation EXCEPT ![customerId].expired = TRUE] ELSE conversation

\* prisma.conversation.upsert of updateState: the row after the write
updateState(row, state) ==
  IF row.exists THEN [row EXCEPT !.state = state, !.expired = FALSE]
  ELSE ConversationRow(state, <<>>)

\* state.cart.findIndex(item => item.productId === productId), 0 for -1
findIndex(cart, productId) ==
  IF \E i \in 1..Len(cart) : cart[i].productId = productId
    THEN CHOOSE i \in 1..Len(cart) :
           /\ cart[i].productId = productId
           /\ \A j \in 1..(i - 1) : cart[j].productId # productId
    ELSE 0

\* addToCart without the findIndex branch: every add pushes a line
addToCartItems_push(cart, productId, quantity, basePrice, by) ==
  Append(cart, [productId |-> productId, quantity |-> quantity,
                unitPrice |-> basePrice, totalPrice |-> quantity * basePrice,
                by |-> by])

\* addToCart with  quantity = quantity  in place of  quantity += quantity
addToCartItems_assign(cart, productId, quantity, basePrice, by) ==
  IF findIndex(cart, productId) > 0
    THEN [cart EXCEPT ![findIndex(cart, productId)] =
            [@ EXCEPT !.quantity = quantity, !.totalPrice = quantity * basePrice]]
    ELSE Append(cart, [productId |-> productId, quantity |-> quantity,
                       unitPrice |-> basePrice, totalPrice |-> quantity * basePrice,
                       by |-> by])

\* the cart addToCart writes back, basePrice being the price it just read.
\* Besides the fields of CartItem a line carries `by`, the <<message, position
\* in the batch>> of the action that pushed it: nothing reads it, it tells
\* one pushed line of a product from a later one.
addToCartItems(cart, productId, quantity, basePrice, by) ==
  LET existingItemIndex == findIndex(cart, productId)
  IN IF existingItemIndex > 0
       THEN [cart EXCEPT ![existingItemIndex] =
               [@ EXCEPT !.quantity = @ + quantity,
                         !.totalPrice = (cart[existingItemIndex].quantity + quantity) * basePrice]]
       ELSE Append(cart, [productId |-> productId, quantity |-> quantity,
                          unitPrice |-> basePrice, totalPrice |-> quantity * basePrice,
                          by |-> by])

\* state.cart.filter(item => item.productId !== productId)
removeFromCartItems(cart, productId) ==
  SelectSeq(cart, LAMBDA item : item.productId # productId)

\* history.push(user, assistant); history.slice(-maxHistory)
lastN(s, n) == IF Len(s) <= n THEN s ELSE SubSeq(s, Len(s) - n + 1, Len(s))

\* addMessageToHistory without  history.slice(-maxHistory)
addMessageToHistoryItems_noSlice(history, msg) ==
  history \o <<[role |-> "user", msg |-> msg], [role |-> "assistant", msg |-> msg]>>

addMessageToHistoryItems(history, msg) ==
  lastN(history \o <<[role |-> "user", msg |-> msg], [role |-> "assistant", msg |-> msg]>>,
        MAX_MESSAGE_HISTORY)

(***************************************************************************)
(* Locals of one run of handleIncomingMessage.  A step of a handler is one *)
(* access to the database together with the local computation and the     *)
(* calls to the geocoder and the language step that precede it: those      *)
(* touch nothing another handler can see.                                  *)
(***************************************************************************)
IdleLocals ==
  [pc |-> "idle", cust |-> "c1", msg |-> 0,
   state |-> getDefaultState,     \* `state` of handleIncomingMessage
   wr |-> getDefaultState,        \* the state a service call is about to write
   after |-> "", ret |-> "",      \* where to continue after the write / the delete
   done |-> 0,                    \* actions of the batch already dispatched
   locationNotFound |-> FALSE,
   quote |-> NotFound,            \* `deliveryQuote`, until the language step has it
   orderNumber |-> 0, order |-> 0, idx |-> 0,
   emailSent |-> FALSE,           \* `emailSent` of processCheckout
   hist |-> <<>>, error |-> "",
   failed |-> 0]                  \* position of the last action the loop logged as failed

Set(h, new) == hs' = [hs EXCEPT ![h] = new]

PinCoords == {Coord(30)}                      \* pins arriving in the message specification
MessageTexts == {t \in Texts : t.id \in {"Ahero", "my place"}}
MessageGeo == {NoGeo, [biased |-> GeoOk(<<Coord(1200), Coord(1001)>>), broad |-> GeoFail]}
PinnedLabel == "Pinned location"

\* a snapshot that leaves the step where it was
snapshotQuote_keepStep(state, quote, location) ==
  [state EXCEPT !.deliveryDistanceKm = quote.distanceKm,
                !.deliveryFee = quote.fee,
                !.deliveryFeeReason = quote.feeReason,
                !.deliveryZone = quote.zone,
                !.deliveryLocation = location]

\* the snapshot of a quote into `state` (lines 93-100 and 184-189)
snapshotQuote(state, quote, location) ==
  [state EXCEPT !.deliveryDistanceKm = quote.distanceKm,
                !.deliveryFee = quote.fee,
                !.deliveryFeeReason = quote.feeReason,
                !.deliveryZone = quote.zone,
                !.deliveryLocation = location,
                !.step = CONFIRMING_ORDER]

\* a resolution that leaves REQUESTING_LOCATION although no path gave a quote
resolveText_advance(state, text, geo) ==
  LET fromKm(kmDistance) ==
        IF kmDistance # Null
          THEN getDeliveryQuoteFromDistance(kmDistance, text.id, classifyCart(state.cart))
          ELSE NotFound
      fallback(first) == IF first.found THEN first ELSE fromKm(parseKmFromText(text.words))
      outcome(deliveryQuote) ==
        IF deliveryQuote.found
          THEN [quote |-> deliveryQuote, locationNotFound |-> FALSE,
                state |-> snapshotQuote(state, deliveryQuote, text.id)]
          ELSE [quote |-> NotFound, locationNotFound |-> TRUE,
                state |-> [state EXCEPT !.step = CONFIRMING_ORDER,
                                        !.deliveryLocation = text.id]]
  IN outcome(fallback(getDeliveryQuote(text, classifyCart(state.cart), geo)))

\* a resolution without the parseKmFromText path after a failed quote
resolveText_noKmPath(state, text, geo) ==
  LET outcome(deliveryQuote) ==
        IF deliveryQuote.found
          THEN [quote |-> deliveryQuote, locationNotFound |-> FALSE,
                state |-> snapshotQuote(state, deliveryQuote, text.id)]
          ELSE [quote |-> NotFound, locationNotFound |-> TRUE, state |-> state]
  IN outcome(getDeliveryQuote(text, classifyCart(state.cart), geo))

\* lines 78-106: the quote for a text received while requesting the location
resolveText(state, text, geo) ==
  LET fromKm(kmDistance) ==
        IF kmDistance # Null
          THEN getDeliveryQuoteFromDistance(kmDistance, text.id, classifyCart(state.cart))
          ELSE NotFound
      fallback(first) == IF first.found THEN first ELSE fromKm(parseKmFromText(text.words))
      outcome(deliveryQuote) ==
        IF deliveryQuote.found
          THEN [quote |-> deliveryQuote, locationNotFound |-> FALSE,
                state |-> snapshotQuote(state, deliveryQuote, text.id)]
          ELSE [quote |-> NotFound, locationNotFound |-> TRUE, state |-> state]
  IN outcome(fallback(getDeliveryQuote(text, classifyCart(state.cart), geo)))

\* handleLocationMessage, lines 172-189: the quote for a pin, in any step
resolvePin(state, coords) ==
  LET outcome(deliveryQuote) ==
        [quote |-> deliveryQuote, locationNotFound |-> FALSE,
         state |-> snapshotQuote(state, deliveryQuote, PinnedLabel)]
  IN outcome(getDeliveryQuoteFromCoords(coords, PinnedLabel, classifyCart(state.cart)))

\* what the handler does between getState and the language step
resolve(state, kind, text, geo, coords) ==
  IF kind = "location" THEN resolvePin(state, coords)
  ELSE IF state.step = REQUESTING_LOCATION THEN resolveText(state, text, geo)
  ELSE [quote |-> NotFound, locationNotFound |-> FALSE, state |-> state]

\* handleIncomingMessage / handleLocationMessage up to the first write: a text
\* or a pin arrives, getState reads the row, the location is resolved
ReceiveMessage(h, c, kind, text, geo, coords, elapsed) ==
  /\ hs[h].pc = "idle"
  /\ h = FirstHandler \/ hs[FirstHandler].pc # "idle"   \* the first free handler
  /\ received < MaxMessages
  /\ received' = received + 1
  /\ conversation' = afterRead(c, getState(c, elapsed).expired)
  /\ LET next(r) == IF r.quote.found THEN "updateState" ELSE "actions"
         begin(expired, r) ==
           [IdleLocals EXCEPT !.cust = c, !.msg = received + 1,
                              !.state = r.state,
                              !.locationNotFound = r.locationNotFound,
                              !.quote = r.quote,
                              !.wr = IF r.quote.found THEN r.state ELSE getDefaultState,
                              !.after = IF r.quote.found THEN "actions" ELSE "",
                              !.ret = IF expired THEN next(r) ELSE "",
                              !.pc = IF expired THEN "clearState" ELSE next(r)]
     IN Set(h, begin(getState(c, elapsed).expired,
                     resolve(getState(c, elapsed).state, kind, text, geo, coords)))
  /\ UNCHANGED <<product, orders, recommendation, cleared, fn>>

\* what a row holds that a later state could show again: its cart lines
\* and the messages of its history
lineIds(cart) == {<<cart[i].productId, cart[i].by>> : i \in 1..Len(cart)}
messageIds(history) == {history[i].msg : i \in 1..Len(history)}

\* the log of deleted rows after clearState has deleted `row`
deleted(log, row) ==
  IF row.exists
    THEN [count |-> log.count + 1,
          lines |-> log.lines \cup lineIds(row.state.cart),
          messages |-> log.messages \cup messageIds(row.messageHistory)]
    ELSE log

\* clearState: prisma.conversation.delete(...).catch(() => {})
ClearState(h) ==
  /\ hs[h].pc = "clearState"
  /\ conversation' = [conversation EXCEPT ![hs[h].cust] = NoConversation]
  /\ cleared' = [cleared EXCEPT ![hs[h].cust] = deleted(@, conversation[hs[h].cust])]
  /\ Set(h, [hs[h] EXCEPT !.pc = hs[h].ret, !.ret = ""])
  /\ UNCHANGED <<product, orders, recommendation, received, fn>>

\* the upsert of updateState(customerId, wr)
UpdateStateWrite(h) ==
  /\ hs[h].pc = "updateState"
  /\ conversation' = [conversation EXCEPT ![hs[h].cust] = updateState(@, hs[h].wr)]
  /\ Set(h, [hs[h] EXCEPT !.pc = hs[h].after, !.after = "", !.wr = getDefaultState])
  /\ UNCHANGED <<product, orders, recommendation, received, cleared, fn>>

(***************************************************************************)
(* executeActions (message.controller.ts, lines 227-299).  The reply of    *)
(* the language step is a list of at most MaxBatch actions; the model      *)
(* draws each action when the loop reaches it.  An exception thrown by an  *)
(* action is caught by the loop, recorded in `error`, and the loop goes on.*)
(***************************************************************************)
AddProducts == {"tomatoes", UnknownProduct}    \* products the ADD_TO_CART actions name
RemoveProducts == {"tilapia", "tomatoes"}      \* and the REMOVE_FROM_CART actions
Quantities == {1}                              \* and the quantities they carry

\* the loop takes the next action of the batch
dispatch(locals) ==
  [locals EXCEPT !.done = @ + 1, !.error = "", !.locationNotFound = FALSE,
                 !.quote = NotFound]

canDispatch(h) == hs[h].pc = "actions" /\ hs[h].done < MaxBatch

\* the catch of the loop: the exception of the action is logged, the loop
\* goes on with the next action
fail(locals, message) ==
  [locals EXCEPT !.pc = "actions", !.error = message, !.failed = locals.done]

\* a service call after its getState: write `state` next, after the delete of
\* an expired row
thenWrite(locals, expired, state) ==
  [locals EXCEPT !.wr = state, !.after = "actions",
                 !.ret = IF expired THEN "updateState" ELSE "",
                 !.pc = IF expired THEN "clearState" ELSE "updateState"]

\* case ADD_TO_CART: addToCart, lines 154-189, up to its write
ActAddToCart(h, productId, quantity) ==
  /\ canDispatch(h)
  /\ IF productId \in DOMAIN product
       THEN LET r == getState(hs[h].cust, FALSE)
                cart == addToCartItems(r.state.cart, productId, quantity,
                                       product[productId].basePrice,
                                       <<hs[h].msg, hs[h].done + 1>>)
            IN Set(h, thenWrite(dispatch(hs[h]), r.expired, [r.state EXCEPT !.cart = cart]))
       ELSE Set(h, fail(dispatch(hs[h]), "Product not found"))
  /\ UNCHANGED <<conversation, product, orders, recommendation, received, cleared, fn>>

\* case REMOVE_FROM_CART: removeFromCart up to its write
ActRemoveFromCart(h, productId) ==
  /\ canDispatch(h)
  /\ LET r == getState(hs[h].cust, FALSE)
     IN Set(h, thenWrite(dispatch(hs[h]), r.expired,
                         [r.state EXCEPT !.cart = removeFromCartItems(@, productId)]))
  /\ UNCHANGED <<conversation, product, orders, recommendation, received, cleared, fn>>

\* clearCart without  state.cart = []
clearCartRead_keepCart(locals) ==
  LET r == getState(locals.cust, FALSE)
  IN thenWrite(locals, r.expired, r.state)

\* clearCart up to its write
clearCartRead(locals) ==
  LET r == getState(locals.cust, FALSE)
  IN thenWrite(locals, r.expired, [r.state EXCEPT !.cart = <<>>])

\* case CLEAR_CART
ActClearCart(h) ==
  /\ canDispatch(h)
  /\ Set(h, clearCartRead(dispatch(hs[h])))
  /\ UNCHANGED <<conversation, product, orders, recommendation, received, cleared, fn>>

\* case REQUEST_LOCATION: state.step = REQUESTING_LOCATION; updateState(state)
ActRequestLocation(h) ==
  /\ canDispatch(h)
  /\ LET new == [hs[h].state EXCEPT !.step = REQUESTING_LOCATION]
     IN Set(h, [dispatch(hs[h]) EXCEPT !.state = new, !.wr = new,
                                       !.after = "actions", !.pc = "updateState"])
  /\ UNCHANGED <<conversation, product, orders, recommendation, received, cleared, fn>>

\* case SHOW_PRODUCTS, VIEW_CART and unknown types: nothing is written
ActReadOnly(h) ==
  /\ canDispatch(h)
  /\ Set(h, dispatch(hs[h]))
  /\ UNCHANGED <<conversation, product, orders, recommendation, received, cleared, fn>>

(***************************************************************************)
(* Recommendation service (order.service.ts, lines 603-659)                *)
(***************************************************************************)
DEFAULT_STRENGTH == 1      \* RECOMMENDATION_CONFIG.defaultStrength
NoRecommendations == [e \in ProductIds \X ProductIds |-> 0]
SeedRecommendations == [NoRecommendations EXCEPT ![<<"tilapia", "tomatoes">>] = 5]

incrementRecommendation(rec, productId, recommendedId) ==
  [rec EXCEPT ![<<productId, recommendedId>>] = IF @ > 0 THEN @ + 1 ELSE DEFAULT_STRENGTH]

\* the nested loops with the second incrementRecommendation call left out
RECURSIVE updatePairs_oneWay(_, _, _, _)
updatePairs_oneWay(rec, orderItems, i, j) ==
  IF i > Len(orderItems) THEN rec
  ELSE IF j > Len(orderItems) THEN updatePairs_oneWay(rec, orderItems, i + 1, i + 2)
  ELSE updatePairs_oneWay(incrementRecommendation(rec, orderItems[i], orderItems[j]),
                          orderItems, i, j + 1)

\* the nested loops with  j = i  in place of  j = i + 1
RECURSIVE updatePairs_fromSelf(_, _, _, _)
updatePairs_fromSelf(rec, orderItems, i, j) ==
  IF i > Len(orderItems) THEN rec
  ELSE IF j > Len(orderItems) THEN updatePairs_fromSelf(rec, orderItems, i + 1, i + 1)
  ELSE updatePairs_fromSelf(
         incrementRecommendation(
           incrementRecommendation(rec, orderItems[i], orderItems[j]),
           orderItems[j], orderItems[i]),
         orderItems, i, j + 1)

\* the two nested loops over i < j
RECURSIVE updatePairs(_, _, _, _)
updatePairs(rec, orderItems, i, j) ==
  IF i > Len(orderItems) THEN rec
  ELSE IF j > Len(orderItems) THEN updatePairs(rec, orderItems, i + 1, i + 2)
  ELSE updatePairs(
         incrementRecommendation(
           incrementRecommendation(rec, orderItems[i], orderItems[j]),
           orderItems[j], orderItems[i]),
         orderItems, i, j + 1)

updateRecommendationsFromOrder(rec, orderItems) ==
  IF Len(orderItems) < 2 THEN rec ELSE updatePairs(rec, orderItems, 1, 2)

(***************************************************************************)
(* Checkout (OrderController.processCheckout, OrderService.createOrder,    *)
(* ProductService.decrementStock)                                          *)
(***************************************************************************)
RECURSIVE sumTotalPrice(_)
sumTotalPrice(cart) ==
  IF cart = <<>> THEN 0 ELSE cart[1].totalPrice + sumTotalPrice(Tail(cart))

\* processCheckout without the check of the delivery location
checkoutError_cartOnly(state) ==
  IF Len(state.cart) = 0 THEN "Cart is empty" ELSE ""

\* the two checks at the top of processCheckout (and again of createOrder)
checkoutError(state) ==
  IF Len(state.cart) = 0 THEN "Cart is empty"
  ELSE IF state.deliveryLocation = "" THEN "Delivery location is required"
  ELSE ""

\* a failed check that ends the batch instead of the action
ActConfirmOrder_abort(h) ==
  /\ canDispatch(h)
  /\ LET e == checkoutError(hs[h].state)
     IN IF e # ""
          THEN Set(h, [fail(dispatch(hs[h]), e) EXCEPT !.pc = "history"])
          ELSE Set(h, [dispatch(hs[h]) EXCEPT !.orderNumber = Len(orders) + 1,
                                              !.pc = "orderCheck"])
  /\ UNCHANGED <<conversation, product, orders, recommendation, received, cleared, fn>>

\* case CONFIRM_ORDER: processCheckout(customerId, state) with the handler's
\* own `state`; a failed check throws before anything is read or written
ActConfirmOrder(h) ==
  /\ canDispatch(h)
  /\ LET e == checkoutError(hs[h].state)
     IN IF e # ""
          THEN Set(h, fail(dispatch(hs[h]), e))
          ELSE Set(h, [dispatch(hs[h]) EXCEPT !.orderNumber = Len(orders) + 1,
                                              !.pc = "orderCheck"])
  /\ UNCHANGED <<conversation, product, orders, recommendation, received, cleared, fn>>

\* generateOrderNumber called again: count today's orders; every order of a
\* behaviour is of the same day, and the number stands for
\* `AFN-<today>-<number, 3 digits>`
GenerateOrderNumberCount(h) ==
  /\ hs[h].pc = "orderCount"
  /\ Set(h, [hs[h] EXCEPT !.orderNumber = Len(orders) + 1, !.pc = "orderCheck"])
  /\ UNCHANGED <<conversation, product, orders, recommendation, received, cleared, fn>>

orderNumberExists(n) == \E i \in 1..Len(orders) : orders[i].orderNumber = n

\* generateOrderNumber: findUnique; an existing number restarts the generation
GenerateOrderNumberCheck(h) ==
  /\ hs[h].pc = "orderCheck"
  /\ Set(h, [hs[h] EXCEPT !.pc = IF orderNumberExists(hs[h].orderNumber)
                                   THEN "orderCount" ELSE "orderCreate"])
  /\ UNCHANGED <<conversation, product, orders, recommendation, received, cleared, fn>>

\* the row prisma.order.create inserts
newOrder(orderNumber, customerId, state, msg) ==
  [orderNumber |-> orderNumber, customerId |-> customerId,
   deliveryLocation |-> state.deliveryLocation, status |-> "PENDING",
   totalAmount |-> sumTotalPrice(state.cart), items |-> state.cart,
   msg |-> msg]

\* prisma.order.create on a column that accepts a number a second time
CreateOrder_unconstrained(h) ==
  /\ hs[h].pc = "orderCreate"
  /\ orders' = Append(orders, newOrder(hs[h].orderNumber, hs[h].cust,
                                       hs[h].state, hs[h].msg))
  /\ Set(h, [hs[h] EXCEPT !.pc = "orderConfirm", !.order = Len(orders) + 1,
                          !.orderNumber = 0])
  /\ UNCHANGED <<conversation, product, recommendation, received, cleared, fn>>

\* prisma.order.create: orderNumber is unique, a taken number makes it throw
CreateOrder(h) ==
  /\ hs[h].pc = "orderCreate"
  /\ IF orderNumberExists(hs[h].orderNumber)
       THEN /\ Set(h, fail([hs[h] EXCEPT !.orderNumber = 0],
                            "Unique constraint failed"))
            /\ UNCHANGED orders
       ELSE /\ orders' = Append(orders, newOrder(hs[h].orderNumber, hs[h].cust,
                                                 hs[h].state, hs[h].msg))
            /\ Set(h, [hs[h] EXCEPT !.pc = "orderConfirm", !.order = Len(orders) + 1,
                                    !.orderNumber = 0])
  /\ UNCHANGED <<conversation, product, recommendation, received, cleared, fn>>

\* updateOrderStatus(order.id, CONFIRMED)
ConfirmOrder(h) ==
  /\ hs[h].pc = "orderConfirm"
  /\ orders' = [orders EXCEPT ![hs[h].order].status = "CONFIRMED"]
  /\ Set(h, [hs[h] EXCEPT !.pc = "orderEmail"])
  /\ UNCHANGED <<conversation, product, recommendation, received, cleared, fn>>

\* a status update that does not look at what sendOrderEmail returned
SendOrderEmail_always(h, emailSent) ==
  /\ hs[h].pc = "orderEmail"
  /\ orders' = [orders EXCEPT ![hs[h].order].status = "EMAIL_SENT"]
  /\ Set(h, [hs[h] EXCEPT !.pc = "orderStock", !.idx = 1, !.emailSent = emailSent])
  /\ UNCHANGED <<conversation, product, recommendation, received, cleared, fn>>

\* sendOrderEmail returns true or false; true is followed by EMAIL_SENT
SendOrderEmail(h, emailSent) ==
  /\ hs[h].pc = "orderEmail"
  /\ orders' = IF emailSent THEN [orders EXCEPT ![hs[h].order].status = "EMAIL_SENT"]
               ELSE orders
  /\ Set(h, [hs[h] EXCEPT !.pc = "orderStock", !.idx = 1, !.emailSent = emailSent])
  /\ UNCHANGED <<conversation, product, recommendation, received, cleared, fn>>

max(a, b) == IF a >= b THEN a ELSE b

\* decrementStock with  stockQuantity - quantity  in place of  Math.max(0, ...)
decrementStock_noFloor(row, quantity) ==
  IF row.stockQuantity = Null THEN row
  ELSE LET newQty == row.stockQuantity - quantity
       IN [row EXCEPT !.stockQuantity = newQty,
                      !.availability = IF newQty = 0 THEN "OUT_OF_STOCK" ELSE @]

\* decrementStock on one product row; Math.ceil of a whole quantity
decrementStock(row, quantity) ==
  IF row.stockQuantity = Null THEN row
  ELSE LET newQty == max(0, row.stockQuantity - quantity)
       IN [row EXCEPT !.stockQuantity = newQty,
                      !.availability = IF newQty = 0 THEN "OUT_OF_STOCK" ELSE @]

\* for (const item of order.items) await decrementStock(...): one item
DecrementStock(h) ==
  /\ hs[h].pc = "orderStock"
  /\ LET item == orders[hs[h].order].items[hs[h].idx]
         last == hs[h].idx = Len(orders[hs[h].order].items)
     IN /\ product' = [product EXCEPT ![item.productId] = decrementStock(@, item.quantity)]
        /\ Set(h, [hs[h] EXCEPT !.idx = IF last THEN 0 ELSE @ + 1,
                                !.pc = IF last THEN "orderRecommend" ELSE "orderStock"])
  /\ UNCHANGED <<conversation, orders, recommendation, received, cleared, fn>>

productIdsOf(items) == [i \in 1..Len(items) |-> items[i].productId]

\* updateRecommendationsFromOrder(order.items.map(...))
UpdateRecommendations(h) ==
  /\ hs[h].pc = "orderRecommend"
  /\ recommendation' = updateRecommendationsFromOrder(
                         recommendation, productIdsOf(orders[hs[h].order].items))
  /\ Set(h, [hs[h] EXCEPT !.pc = "orderClearCart"])
  /\ UNCHANGED <<conversation, product, orders, received, cleared, fn>>

\* conversationService.clearCart(customerId) at the end of processCheckout
CheckoutClearCart(h) ==
  /\ hs[h].pc = "orderClearCart"
  /\ Set(h, clearCartRead([hs[h] EXCEPT !.order = 0, !.emailSent = FALSE]))
  /\ UNCHANGED <<conversation, product, orders, recommendation, received, cleared, fn>>

(***************************************************************************)
(* End of the handler: the reply is sent, the history is saved             *)
(***************************************************************************)
\* the loop is over; sendMessageWithRetry; addMessageToHistory reads the row
FinishActions(h) ==
  /\ hs[h].pc = "actions"
  /\ Set(h, [hs[h] EXCEPT !.pc = "history", !.error = "", !.locationNotFound = FALSE,
                          !.quote = NotFound, !.failed = 0,
                          !.hist = IF conversation[hs[h].cust].exists
                                     THEN conversation[hs[h].cust].messageHistory
                                     ELSE <<>>])
  /\ UNCHANGED <<conversation, product, orders, recommendation, received, cleared, fn>>

\* the upsert of addMessageToHistory: an existing row keeps its state
SaveHistory(h) ==
  /\ hs[h].pc = "history"
  /\ LET trimmedHistory == addMessageToHistoryItems(hs[h].hist, hs[h].msg)
         row == conversation[hs[h].cust]
     IN conversation' = [conversation EXCEPT ![hs[h].cust] =
                           IF row.exists
                             THEN [row EXCEPT !.messageHistory = trimmedHistory,
                                              !.expired = FALSE]
                             ELSE ConversationRow(getDefaultState, trimmedHistory)]
  /\ Set(h, IdleLocals)
  /\ UNCHANGED <<product, orders, recommendation, received, cleared, fn>>

(***************************************************************************)
(* The message-handling specification                                      *)
(***************************************************************************)
FnIdle == [spec |-> "none"]

\* A behaviour starts with no row, or with the row two earlier messages leave:
\* a text whose reply added one tilapia, then a pin 3 km from the centre
ReadySession ==
  ConversationRow(
    snapshotQuote([getDefaultState EXCEPT !.cart =
                     addToCartItems(<<>>, "tilapia", 1, 600, <<0, 1>>)],
                  getDeliveryQuoteFromCoords(Coord(30), PinnedLabel, "anchor"),
                  PinnedLabel),
    addMessageToHistoryItems(addMessageToHistoryItems(<<>>, 0), 0))

InitialSessions == {NoConversation, ReadySession}

Init ==
  /\ conversation \in [Customers -> InitialSessions]
  /\ cleared = [c \in Customers |-> [count |-> 0, lines |-> {}, messages |-> {}]]
  /\ product = InitialProducts
  /\ orders = <<>>
  /\ recommendation = SeedRecommendations
  /\ hs = [h \in Handlers |-> IdleLocals]
  /\ received = 0
  /\ fn = FnIdle

Next ==
  \/ \E h \in Handlers, c \in Customers, text \in MessageTexts, geo \in MessageGeo :
        \E elapsed \in Elapsed(c) :
        ReceiveMessage(h, c, "text", text, geo, Coord(0), elapsed)
  \/ \E h \in Handlers, c \in Customers, coords \in PinCoords :
        \E elapsed \in Elapsed(c) :
        ReceiveMessage(h, c, "location", NoText, NoGeo, coords, elapsed)
  \/ \E h \in Handlers : ClearState(h)
  \/ \E h \in Handlers : UpdateStateWrite(h)
  \/ \E h \in Handlers, p \in AddProducts, q \in Quantities :
        ActAddToCart(h, p, q)
  \/ \E h \in Handlers, p \in RemoveProducts : ActRemoveFromCart(h, p)
  \/ \E h \in Handlers : ActClearCart(h)
  \/ \E h \in Handlers : ActRequestLocation(h)
  \/ \E h \in Handlers : ActReadOnly(h)
  \/ \E h \in Handlers : ActConfirmOrder(h)
  \/ \E h \in Handlers : GenerateOrderNumberCount(h)
  \/ \E h \in Handlers : GenerateOrderNumberCheck(h)
  \/ \E h \in Handlers : CreateOrder(h)
  \/ \E h \in Handlers : ConfirmOrder(h)
  \/ \E h \in Handlers, emailSent \in BOOLEAN : SendOrderEmail(h, emailSent)
  \/ \E h \in Handlers : DecrementStock(h)
  \/ \E h \in Handlers : UpdateRecommendations(h)
  \/ \E h \in Handlers : CheckoutClearCart(h)
  \/ \E h \in Handlers : FinishActions(h)
  \/ \E h \in Handlers : SaveHistory(h)

Spec == Init /\ [][Next]_vars

(***************************************************************************)
(* CartSpec: the cart methods of ConversationService called one after the  *)
(* other for one customer, each call running from its getState to its      *)
(* updateState without another call in between.  fn.calls is the list of   *)
(* the calls made.                                                         *)
(***************************************************************************)
CartCustomer == "c1"

callWrite(customerId, cart) ==
  [conversation EXCEPT ![customerId] =
     updateState(@, [getState(customerId, FALSE).state EXCEPT !.cart = cart])]

CallAddToCart(productId, quantity) ==
  /\ fn.spec = "cart"
  /\ Len(fn.calls) < MaxCalls
  /\ productId \in DOMAIN product
  /\ conversation' = callWrite(CartCustomer,
                       addToCartItems(getState(CartCustomer, FALSE).state.cart, productId,
                                      quantity, product[productId].basePrice,
                                      <<0, Len(fn.calls) + 1>>))
  /\ fn' = [fn EXCEPT !.calls = Append(@, [type |-> "ADD_TO_CART", productId |-> productId,
                                           quantity |-> quantity])]
  /\ UNCHANGED <<product, orders, recommendation, hs, received, cleared>>

CallRemoveFromCart(productId) ==
  /\ fn.spec = "cart"
  /\ Len(fn.calls) < MaxCalls
  /\ conversation' = callWrite(CartCustomer,
                       removeFromCartItems(getState(CartCustomer, FALSE).state.cart, productId))
  /\ fn' = [fn EXCEPT !.calls = Append(@, [type |-> "REMOVE_FROM_CART",
                                           productId |-> productId, quantity |-> 0])]
  /\ UNCHANGED <<product, orders, recommendation, hs, received, cleared>>

CallClearCart ==
  /\ fn.spec = "cart"
  /\ Len(fn.calls) < MaxCalls
  /\ conversation' = callWrite(CartCustomer, <<>>)
  /\ fn' = [fn EXCEPT !.calls = Append(@, [type |-> "CLEAR_CART", productId |-> "",
                                           quantity |-> 0])]
  /\ UNCHANGED <<product, orders, recommendation, hs, received, cleared>>

CartInit ==
  /\ conversation = [c \in Customers |-> NoConversation]
  /\ cleared = [c \in Customers |-> [count |-> 0, lines |-> {}, messages |-> {}]]
  /\ product = InitialProducts
  /\ orders = <<>>
  /\ recommendation = SeedRecommendations
  /\ hs = [h \in Handlers |-> IdleLocals]
  /\ received = 0
  /\ fn = [spec |-> "cart", calls |-> <<>>]

CartNext ==
  \/ \E p \in ProductIds, q \in 1..MaxQty : CallAddToCart(p, q)
  \/ \E p \in ProductIds : CallRemoveFromCart(p)
  \/ CallClearCart

CartSpec == CartInit /\ [][CartNext]_vars

(***************************************************************************)
(* RecSpec: updateRecommendationsFromOrder run up to MaxRuns times on the  *)
(* items of one order, from a drawn graph.  fn keeps the graph at the      *)
(* start, the items and the number of runs.                                *)
(***************************************************************************)
\* the product ids of the lines of an order: a cart has one line per product
OrderItemLists ==
  {items \in UNION {[1..n -> ProductIds] : n \in 0..Cardinality(ProductIds)} :
     \A i, j \in 1..Len(items) : items[i] = items[j] => i = j}

MaxLaterOrders == 2     \* changes of the order list in one behaviour of RecSpec

StartGraphs ==
  {NoRecommendations, SeedRecommendations,
   [SeedRecommendations EXCEPT ![<<"tomatoes", "tilapia">>] = 4,
                               ![<<"broiler", "tomatoes">>] = 2]}

RunUpdateFromOrder ==
  /\ fn.spec = "rec"
  /\ fn.runs < MaxRuns
  /\ recommendation' = updateRecommendationsFromOrder(recommendation, fn.items)
  /\ fn' = [fn EXCEPT !.runs = @ + 1]
  /\ UNCHANGED <<conversation, product, orders, hs, received, cleared>>

RecInit ==
  /\ conversation = [c \in Customers |-> NoConversation]
  /\ cleared = [c \in Customers |-> [count |-> 0, lines |-> {}, messages |-> {}]]
  /\ product = InitialProducts
  /\ orders = <<>>
  /\ recommendation \in StartGraphs
  /\ hs = [h \in Handlers |-> IdleLocals]
  /\ received = 0
  /\ \E items \in OrderItemLists :
        fn = [spec |-> "rec", start |-> recommendation, items |-> items, runs |-> 0,
              initial |-> recommendation, later |-> 0]

\* the orders that follow are of other carts: fn.start is the graph the
\* earlier orders have left, fn.initial stays the graph of the first state
LaterOrder(items) ==
  /\ fn.spec = "rec"
  /\ fn.runs > 0
  /\ fn.later < MaxLaterOrders
  /\ items # fn.items
  /\ fn' = [fn EXCEPT !.start = recommendation, !.items = items, !.runs = 0,
                      !.later = @ + 1]
  /\ UNCHANGED <<conversation, product, orders, recommendation, hs, received, cleared>>

RecNext ==
  \/ RunUpdateFromOrder
  \/ \E items \in OrderItemLists : LaterOrder(items)

RecSpec == RecInit /\ [][RecNext]_vars

(***************************************************************************)
(* QuoteSpec: the quote functions of the delivery service and the location *)
(* resolution of the message handler, applied to drawn inputs for one      *)
(* drawn session, once per path.  fn keeps the session and, per path, the  *)
(* input and its result.                                                   *)
(***************************************************************************)
QuoteDistances == {0, 3, 4, 5, 6, 10, 15, 16, 22, 30, 60}
QuoteCoords == {Coord(23), Coord(30), Coord(39), Coord(43), Coord(77), Coord(115),
                Coord(120), Coord(231)}
EmptyGeo == [biased |-> GeoOk(<<>>), broad |-> GeoOk(<<>>)]
QuoteGeo ==
  { NoGeo, EmptyGeo,
    [biased |-> GeoOk(<<>>), broad |-> GeoFail],
    [biased |-> GeoOk(<<Coord(231), Coord(77)>>), broad |-> GeoFail],
    [biased |-> GeoOk(<<>>), broad |-> GeoOk(<<Coord(23)>>)],
    [biased |-> GeoOk(<<Coord(120)>>), broad |-> GeoOk(<<>>)],
    [biased |-> GeoOk(<<Coord(1000)>>), broad |-> GeoFail],
    [biased |-> GeoOk(<<Coord(1200), Coord(1001)>>), broad |-> GeoOk(<<Coord(23)>>)],
    [biased |-> GeoOk(<<>>), broad |-> GeoOk(<<Coord(1500)>>)] }

\* the sessions a text or a pin can find: the customer was asked for the
\* location, with or without an earlier delivery snapshot
QuoteCarts ==
  { <<>>,
    addToCartItems(<<>>, "tilapia", 1, 600, <<0, 1>>),
    addToCartItems(<<>>, "tomatoes", 2, 120, <<0, 1>>),
    addToCartItems(addToCartItems(<<>>, "tomatoes", 2, 120, <<0, 1>>),
                   "tilapia", 1, 600, <<0, 2>>) }
QuoteSessions ==
  {[s EXCEPT !.cart = cart, !.step = REQUESTING_LOCATION] :
     s \in {getDefaultState, ReadySession.state}, cart \in QuoteCarts}

NoQuote == [asked |-> FALSE]

QuoteKnownDistance(distanceKm) ==
  /\ fn.spec = "quote"
  /\ ~fn.known.asked
  /\ fn' = [fn EXCEPT !.known =
              [asked |-> TRUE, distanceKm |-> distanceKm,
               quote |-> getDeliveryQuoteFromDistance(distanceKm, "known",
                                                      classifyCart(fn.session.cart))]]
  /\ UNCHANGED <<conversation, product, orders, recommendation, hs, received, cleared>>

QuotePin(coords) ==
  /\ fn.spec = "quote"
  /\ ~fn.pin.asked
  /\ fn' = [fn EXCEPT !.pin =
              [asked |-> TRUE, coords |-> coords,
               quote |-> getDeliveryQuoteFromCoords(coords, PinnedLabel,
                                                    classifyCart(fn.session.cart)),
               resolved |-> resolvePin(fn.session, coords)]]
  /\ UNCHANGED <<conversation, product, orders, recommendation, hs, received, cleared>>

QuoteText(text, geo) ==
  /\ fn.spec = "quote"
  /\ ~fn.text.asked
  /\ fn' = [fn EXCEPT !.text =
              [asked |-> TRUE, text |-> text, geo |-> geo,
               known |-> lookupKnownLocation(text.words),
               quote |-> getDeliveryQuote(text, classifyCart(fn.session.cart), geo),
               resolved |-> resolveText(fn.session, text, geo)]]
  /\ UNCHANGED <<conversation, product, orders, recommendation, hs, received, cleared>>

QuoteInit ==
  /\ conversation = [c \in Customers |-> NoConversation]
  /\ cleared = [c \in Customers |-> [count |-> 0, lines |-> {}, messages |-> {}]]
  /\ product = InitialProducts
  /\ orders = <<>>
  /\ recommendation = SeedRecommendations
  /\ hs = [h \in Handlers |-> IdleLocals]
  /\ received = 0
  /\ \E session \in QuoteSessions :
        fn = [spec |-> "quote", session |-> session,
              known |-> NoQuote, pin |-> NoQuote, text |-> NoQuote]

QuoteNext ==
  \/ \E distanceKm \in QuoteDistances : QuoteKnownDistance(distanceKm)
  \/ \E coords \in QuoteCoords : QuotePin(coords)
  \/ \E text \in Texts, geo \in QuoteGeo : QuoteText(text, geo)

QuoteSpec == QuoteInit /\ [][QuoteNext]_vars

(***************************************************************************)
(* RecommendSpec: getRecommendations (order.service.ts, lines 526-576) on  *)
(* a drawn cart, edge table and catalog.  fn keeps the inputs and the      *)
(* products returned.                                                      *)
(***************************************************************************)
MAX_RECOMMENDATIONS == 3   \* RECOMMENDATION_CONFIG.maxRecommendations
MIN_STRENGTH == 2          \* RECOMMENDATION_CONFIG.minStrength

\* the catalog of this specification: enough products to pass the cap
CatalogIds == ProductIds \cup {"sukuma", "onions"}

Edge(productId, recommendedId, strength) ==
  [productId |-> productId, recommendedId |-> recommendedId, strength |-> strength]

\* orderBy strength desc of the rows with indices in S; equal strengths come
\* in storage order or in reverse storage order
RECURSIVE orderByStrengthDesc(_, _, _)
orderByStrengthDesc(rows, S, storageOrder) ==
  IF S = {} THEN <<>>
  ELSE LET first == CHOOSE i \in S : \A j \in S :
                      \/ rows[j].strength < rows[i].strength
                      \/ /\ rows[j].strength = rows[i].strength
                         /\ IF storageOrder THEN i <= j ELSE i >= j
       IN <<rows[first]>> \o orderByStrengthDesc(rows, S \ {first}, storageOrder)

\* findMany without the filter on the strength
findMany_anyStrength(rows, productIds, storageOrder) ==
  LET take(s, n) == IF Len(s) <= n THEN s ELSE SubSeq(s, 1, n)
  IN take(orderByStrengthDesc(rows,
                              {i \in 1..Len(rows) : rows[i].productId \in productIds},
                              storageOrder),
          MAX_RECOMMENDATIONS * 2)

\* prisma.productRecommendation.findMany({where, orderBy, take})
findMany(rows, productIds, storageOrder) ==
  LET take(s, n) == IF Len(s) <= n THEN s ELSE SubSeq(s, 1, n)
  IN take(orderByStrengthDesc(rows,
                              {i \in 1..Len(rows) : /\ rows[i].productId \in productIds
                                                    /\ rows[i].strength >= MIN_STRENGTH},
                              storageOrder),
          MAX_RECOMMENDATIONS * 2)

\* the loop over the rows found: productMap in insertion order
RECURSIVE collectRecommended(_, _, _, _, _)
collectRecommended(recommendations, i, productIds, catalog, productMap) ==
  IF i > Len(recommendations) THEN productMap
  ELSE LET id == recommendations[i].recommendedId
           added == IF catalog[id].isActive /\ catalog[id].availability = "IN_STOCK"
                      THEN Append(productMap, id) ELSE productMap
       IN IF id \in productIds \/ (\E k \in 1..Len(productMap) : productMap[k] = id)
            THEN collectRecommended(recommendations, i + 1, productIds, catalog, productMap)
          ELSE IF Len(added) >= MAX_RECOMMENDATIONS THEN added
          ELSE collectRecommended(recommendations, i + 1, productIds, catalog, added)

getRecommendations(cart, rows, catalog, storageOrder) ==
  IF Len(cart) = 0 THEN <<>>
  ELSE collectRecommended(
         findMany(rows, {cart[i].productId : i \in 1..Len(cart)}, storageOrder),
         1, {cart[i].productId : i \in 1..Len(cart)}, catalog, <<>>)

\* the edge tables drawn: BaseEdges with up to two rows left out
BaseEdges ==
  << Edge("tilapia", "tomatoes", 5), Edge("tilapia", "sukuma", 5),
     Edge("tilapia", "onions", 4),   Edge("tilapia", "broiler", 2),
     Edge("broiler", "tomatoes", 3), Edge("broiler", "sukuma", 1),
     Edge("broiler", "tilapia", 5),  Edge("tomatoes", "onions", 2),
     Edge("tomatoes", "tilapia", 1) >>

without(s, out) ==
  LET keep == {i \in 1..Len(s) : i \notin out}
      nth(k) == CHOOSE i \in keep : Cardinality({j \in keep : j < i}) = k - 1
  IN [k \in 1..Cardinality(keep) |-> s[nth(k)]]

\* and a table in which two products bought together share their two
\* strongest companions: seven rows from tilapia and broiler
EdgeTables ==
  {without(BaseEdges, out) : out \in {o \in SUBSET (1..Len(BaseEdges)) : Cardinality(o) <= 2}}
  \cup {<< Edge("tilapia", "broiler", 9),  Edge("broiler", "tilapia", 9),
           Edge("tilapia", "tomatoes", 8), Edge("broiler", "tomatoes", 8),
           Edge("tilapia", "sukuma", 7),   Edge("broiler", "sukuma", 7),
           Edge("tilapia", "onions", 6) >>}

\* carts of up to three products, one line per product
RecommendCarts ==
  LET order == <<"tilapia", "broiler", "tomatoes", "sukuma", "onions">>
      cartOf(S) == LET ids == without(order, {i \in 1..Len(order) : order[i] \notin S})
                   IN [k \in 1..Len(ids) |-> [productId |-> ids[k]]]
  IN {cartOf(S) : S \in {T \in SUBSET CatalogIds : Cardinality(T) <= 3}}

\* the catalogs drawn: what getRecommendations reads of a product row
AllInStock == [p \in CatalogIds |-> [isActive |-> TRUE, availability |-> "IN_STOCK"]]

Catalogs ==
  { AllInStock,
    [AllInStock EXCEPT !["sukuma"].availability = "OUT_OF_STOCK"],
    [AllInStock EXCEPT !["tomatoes"].isActive = FALSE],
    [AllInStock EXCEPT !["onions"].availability = "AVAILABLE_ON_REQUEST",
                       !["tilapia"].availability = "OUT_OF_STOCK"] }

CallGetRecommendations ==
  /\ fn.spec = "recommend"
  /\ ~fn.asked
  /\ fn' = [fn EXCEPT !.asked = TRUE,
                      !.result = getRecommendations(fn.cart, fn.rows, fn.catalog,
                                                    fn.storageOrder)]
  /\ UNCHANGED <<conversation, product, orders, recommendation, hs, received, cleared>>

RecommendInit ==
  /\ conversation = [c \in Customers |-> NoConversation]
  /\ cleared = [c \in Customers |-> [count |-> 0, lines |-> {}, messages |-> {}]]
  /\ product = InitialProducts
  /\ orders = <<>>
  /\ recommendation = NoRecommendations
  /\ hs = [h \in Handlers |-> IdleLocals]
  /\ received = 0
  /\ \E cart \in RecommendCarts, rows \in EdgeTables, catalog \in Catalogs,
        storageOrder \in BOOLEAN :
        fn = [spec |-> "recommend", cart |-> cart, rows |-> rows, catalog |-> catalog,
              storageOrder |-> storageOrder, asked |-> FALSE, result |-> <<>>]

RecommendNext == CallGetRecommendations

RecommendSpec == RecommendInit /\ [][RecommendNext]_vars

(***************************************************************************)
(* AddSpec: the message handlers when every reply of the language step is  *)
(* a batch of ADD_TO_CART actions, for any product of the catalog, and no   *)
(* session expires.                                                        *)
(***************************************************************************)
AddNext ==
  \/ \E h \in Handlers, c \in Customers, text \in MessageTexts :
        ReceiveMessage(h, c, "text", text, NoGeo, Coord(0), FALSE)
  \/ \E h \in Handlers : UpdateStateWrite(h)
  \/ \E h \in Handlers, p \in ProductIds, q \in Quantities : ActAddToCart(h, p, q)
  \/ \E h \in Handlers : FinishActions(h)
  \/ \E h \in Handlers : SaveHistory(h)

AddSpec == Init /\ [][AddNext]_vars

(***************************************************************************)
(* CheckoutSpec: the message-handling model restricted to CONFIRM_ORDER    *)
(* batches, with the database able to reject a call of the steps that      *)
(* follow the notification.  processCheckout runs all its steps inside one *)
(* try block whose catch logs and rethrows.                                *)
(***************************************************************************)
\* decrementStock or updateRecommendationsFromOrder rejects: the exception
\* leaves processCheckout and is logged by the loop of executeActions
PostCreationThrows(h) ==
  /\ hs[h].pc \in {"orderStock", "orderRecommend"}
  /\ Set(h, fail([hs[h] EXCEPT !.order = 0, !.idx = 0, !.emailSent = FALSE],
              "database error"))
  /\ UNCHANGED <<conversation, product, orders, recommendation, received, cleared, fn>>

CheckoutNext ==
  \/ \E h \in Handlers, c \in Customers, text \in MessageTexts :
        ReceiveMessage(h, c, "text", text, NoGeo, Coord(0), FALSE)
  \/ \E h \in Handlers : UpdateStateWrite(h)
  \/ \E h \in Handlers : ActConfirmOrder(h)
  \/ \E h \in Handlers : GenerateOrderNumberCount(h)
  \/ \E h \in Handlers : GenerateOrderNumberCheck(h)
  \/ \E h \in Handlers : CreateOrder(h)
  \/ \E h \in Handlers : ConfirmOrder(h)
  \/ \E h \in Handlers, emailSent \in BOOLEAN : SendOrderEmail(h, emailSent)
  \/ \E h \in Handlers : DecrementStock(h)
  \/ \E h \in Handlers : UpdateRecommendations(h)
  \/ \E h \in Handlers : PostCreationThrows(h)
  \/ \E h \in Handlers : CheckoutClearCart(h)
  \/ \E h \in Handlers : FinishActions(h)
  \/ \E h \in Handlers : SaveHistory(h)

CheckoutSpec == Init /\ [][CheckoutNext]_vars

(***************************************************************************)
(* WebhookSpec: router.post of the webhook (src/unnamed/part_004, lines    *)
(* 69-161) with the in-memory map processedMessages.  fn.now is Date.now() *)
(* in milliseconds; fn.handled[id] lists the times at which                *)
(* handleIncomingMessage was started for the message id.                   *)
(***************************************************************************)
DEDUP_TTL_MS == 60000     \* Keep message IDs for 60 seconds
TickMs == 20000           \* the clock advances in steps of 20 s
MaxNow == 120000          \* the clock stops here
MaxDeliveries == 3        \* handler starts recorded per message id
MessageIds == {"wamid.1", "wamid.2"}
NotSeen == -1             \* the id has no entry in processedMessages

\* isDuplicate(messageId): entries older than the window are deleted, a
\* remaining entry makes the message a duplicate, otherwise it is entered
isDuplicate(processedMessages, messageId, now) ==
  LET cleaned == [id \in MessageIds |->
                    IF processedMessages[id] # NotSeen
                       /\ now - processedMessages[id] > DEDUP_TTL_MS
                      THEN NotSeen ELSE processedMessages[id]]
  IN IF cleaned[messageId] # NotSeen
       THEN [duplicate |-> TRUE, processedMessages |-> cleaned]
       ELSE [duplicate |-> FALSE,
             processedMessages |-> [cleaned EXCEPT ![messageId] = now]]

\* one POST carrying the message `id`: in the wasenderapi format (event and
\* messageBody present) it is filtered by isDuplicate, in the legacy format
\* (an array `messages`) every message is handed to the handler
Post(format, id) ==
  /\ fn.spec = "webhook"
  /\ Len(fn.handled[id]) < MaxDeliveries
  /\ LET d == isDuplicate(fn.processedMessages, id, fn.now)
         started == [fn.handled EXCEPT ![id] = Append(@, fn.now)]
     IN fn' = IF format = "wasenderapi"
                THEN [fn EXCEPT !.processedMessages = d.processedMessages,
                                !.handled = IF d.duplicate THEN @ ELSE started]
                ELSE [fn EXCEPT !.handled = started]
  /\ UNCHANGED <<conversation, product, orders, recommendation, hs, received, cleared>>

Tick ==
  /\ fn.spec = "webhook"
  /\ fn.now < MaxNow
  /\ fn' = [fn EXCEPT !.now = @ + TickMs]
  /\ UNCHANGED <<conversation, product, orders, recommendation, hs, received, cleared>>

WebhookInit ==
  /\ conversation = [c \in Customers |-> NoConversation]
  /\ cleared = [c \in Customers |-> [count |-> 0, lines |-> {}, messages |-> {}]]
  /\ product = InitialProducts
  /\ orders = <<>>
  /\ recommendation = SeedRecommendations
  /\ hs = [h \in Handlers |-> IdleLocals]
  /\ received = 0
  /\ fn = [spec |-> "webhook", now |-> 0,
           processedMessages |-> [id \in MessageIds |-> NotSeen],
           handled |-> [id \in MessageIds |-> <<>>]]

WebhookNext ==
  \/ \E format \in {"wasenderapi", "legacy"}, id \in MessageIds : Post(format, id)
  \/ Tick

WebhookSpec == WebhookInit /\ [][WebhookNext]_vars

(***************************************************************************)
(* TurnSpec: one run of handleIncomingMessage from the call of the         *)
(* language step to the end (message.controller.ts, lines 108-158):        *)
(* processMessage and parseResponse (claude.service.ts, lines 282-342 and  *)
(* 545-634), executeActions, sendMessageWithRetry (whatsapp.service.ts,    *)
(* lines 119-143), addMessageToHistory, and the catch that sends the       *)
(* apology.  The texts of the language step are drawn from ResponseTexts;  *)
(* the outcome of every send and of the write of the history is an input.  *)
(***************************************************************************)
MAX_RETRIES == 3          \* maxRetries: number = 3

\* What parseResponse looks at in a text.  direct: JSON.parse accepts the
\* text once a leading fence is removed; regex: the pattern of line 570
\* matches; balanced: the braces from the first "{" close; extracted:
\* JSON.parse accepts that substring; message: the object has the member;
\* iterable, actions: its member `actions` can be iterated, and the types
\* of the actions in it; residue: what the replaces of lines 608-610 leave.
ResponseText(direct, regex, balanced, extracted, message, iterable, actions, residue) ==
  [direct |-> direct, regex |-> regex, balanced |-> balanced,
   extracted |-> extracted, message |-> message, iterable |-> iterable,
   actions |-> actions, residue |-> residue]

ResponseTexts ==
  { \* {"message": "Sawa", "actions": [{"type": "ADD_TO_CART", ...}]}, bare or fenced
    ResponseText(TRUE, TRUE, TRUE, TRUE, TRUE, TRUE, <<"ADD_TO_CART">>, "short"),
    \* Sure! {"message": "Sawa", "actions": [{"type": "CONFIRM_ORDER"}]} Enjoy.
    ResponseText(FALSE, TRUE, TRUE, TRUE, TRUE, TRUE, <<"CONFIRM_ORDER">>, "short"),
    \* {"actions": [{"type": "CLEAR_CART"}]}
    ResponseText(TRUE, FALSE, TRUE, TRUE, FALSE, TRUE, <<"CLEAR_CART">>, "short"),
    \* {"message": "Sawa", "actions": {"type": "CONFIRM_ORDER"}}
    ResponseText(TRUE, TRUE, TRUE, TRUE, TRUE, FALSE, <<>>, "short"),
    \* I have added the tilapia to your cart.
    ResponseText(FALSE, FALSE, FALSE, FALSE, FALSE, TRUE, <<>>, "prose"),
    \* Sawa!
    ResponseText(FALSE, FALSE, FALSE, FALSE, FALSE, TRUE, <<>>, "short"),
    \* {"message": "Sawa", "actions": [{"type": "ADD_TO_CART", "data": {"productId": "t"}},
    ResponseText(FALSE, TRUE, FALSE, FALSE, TRUE, TRUE, <<"ADD_TO_CART">>, "short"),
    \* {"message": "Sawa", "actions": [{"type": "ADD_TO_CART", "data": {"productId": "t"
    ResponseText(FALSE, FALSE, FALSE, FALSE, TRUE, TRUE, <<"ADD_TO_CART">>, "raw") }

\* parseResponse: the direct parse, the parse of the extracted object, then
\* the cleaned text when it is longer than 10 characters, else the fixed
\* sentence
parseResponse(text) ==
  LET parsed == [message |-> IF text.message THEN "parsed" ELSE "generic",
                 iterable |-> text.iterable, actions |-> text.actions]
  IN IF text.direct THEN parsed
     ELSE IF text.regex /\ text.balanced /\ text.extracted THEN parsed
     ELSE IF text.residue # "short"
       THEN [message |-> text.residue, iterable |-> TRUE, actions |-> <<>>]
     ELSE [message |-> "retry", iterable |-> TRUE, actions |-> <<>>]

\* processMessage: a failed call or a content block that is not text gives
\* the fallback response of the catch
processMessage(api, text) ==
  IF api = "text" THEN parseResponse(text)
  ELSE [message |-> "error", iterable |-> TRUE, actions |-> <<>>]

\* a loop that goes on after a send that succeeded
retryStep_noStop(attempt, success) ==
  IF attempt < MAX_RETRIES
    THEN [result |-> "none", wait |-> <<(2 ^ attempt) * 1000>>, attempt |-> attempt + 1]
  ELSE [result |-> IF success THEN "success" ELSE "failure", wait |-> <<>>,
        attempt |-> attempt]

\* one iteration of the loop of sendMessageWithRetry after its sendMessage
retryStep(attempt, success) ==
  IF success THEN [result |-> "success", wait |-> <<>>, attempt |-> attempt]
  ELSE IF attempt < MAX_RETRIES
    THEN [result |-> "none", wait |-> <<(2 ^ attempt) * 1000>>, attempt |-> attempt + 1]
  ELSE [result |-> "failure", wait |-> <<>>, attempt |-> attempt]

TurnStep(new) ==
  /\ fn.spec = "turn"
  /\ fn' = new
  /\ UNCHANGED <<conversation, product, orders, recommendation, hs, received, cleared>>

ProcessMessage(api, text) ==
  /\ fn.spec = "turn" /\ fn.pc = "language"
  /\ TurnStep([fn EXCEPT !.api = api, !.text = text,
                         !.response = processMessage(api, text), !.pc = "actions"])

\* executeActions: `for (const action of actions)` throws on a value that is
\* not iterable, and the exception reaches the catch of the handler
ExecuteActions ==
  /\ fn.spec = "turn" /\ fn.pc = "actions"
  /\ TurnStep(IF ~fn.response.iterable
                THEN [fn EXCEPT !.pc = "apology"]
                ELSE [fn EXCEPT !.executed = fn.response.actions, !.pc = "send"])

\* one iteration of sendMessageWithRetry: sendMessage, then return or wait
SendMessage(success) ==
  /\ fn.spec = "turn" /\ fn.pc = "send"
  /\ LET r == retryStep(fn.attempt, success)
     IN TurnStep([fn EXCEPT !.sends = Append(@, success),
                            !.waits = @ \o r.wait,
                            !.attempt = r.attempt,
                            !.result = r.result,
                            !.delivered = IF success THEN Append(@, "reply") ELSE @,
                            !.pc = IF r.result = "none" THEN "send" ELSE "history"])

\* addMessageToHistory: the write succeeds, or the database rejects it and
\* the exception reaches the catch of the handler
AddMessageToHistory(ok) ==
  /\ fn.spec = "turn" /\ fn.pc = "history"
  /\ TurnStep([fn EXCEPT !.history = IF ok THEN "saved" ELSE "failed",
                         !.pc = IF ok THEN "done" ELSE "apology"])

\* the catch of handleIncomingMessage: one sendMessage with the apology
SendApology(success) ==
  /\ fn.spec = "turn" /\ fn.pc = "apology"
  /\ TurnStep([fn EXCEPT !.delivered = IF success THEN Append(@, "apology") ELSE @,
                         !.pc = "done"])

TurnInit ==
  /\ conversation = [c \in Customers |-> NoConversation]
  /\ cleared = [c \in Customers |-> [count |-> 0, lines |-> {}, messages |-> {}]]
  /\ product = InitialProducts
  /\ orders = <<>>
  /\ recommendation = SeedRecommendations
  /\ hs = [h \in Handlers |-> IdleLocals]
  /\ received = 0
  /\ fn = [spec |-> "turn", pc |-> "language", api |-> "none",
           text |-> ResponseText(FALSE, FALSE, FALSE, FALSE, FALSE, TRUE, <<>>, "short"),
           response |-> [message |-> "none", iterable |-> TRUE, actions |-> <<>>],
           executed |-> <<>>, attempt |-> 1, sends |-> <<>>, waits |-> <<>>,
           result |-> "none", history |-> "none", delivered |-> <<>>]

TurnNext ==
  \/ \E api \in {"error", "nonText", "text"}, text \in ResponseTexts :
        ProcessMessage(api, text)
  \/ ExecuteActions
  \/ \E success \in BOOLEAN : SendMessage(success)
  \/ \E ok \in BOOLEAN : AddMessageToHistory(ok)
  \/ \E success \in BOOLEAN : SendApology(success)

TurnSpec == TurnInit /\ [][TurnNext]_vars

(***************************************************************************)
(* AdminSpec: the cart methods called one after the other as in CartSpec,  *)
(* with the quantities an ADD_TO_CART action can carry, and the admin      *)
(* route PUT /admin/api/products/:id (admin.routes.ts, lines 49-68)        *)
(* changing the price and the active flag of a product between the calls.  *)
(***************************************************************************)
MAX_ITEMS == 20               \* CART_CONFIG.maxItems
MAX_QUANTITY_PER_ITEM == 10   \* CART_CONFIG.maxQuantityPerItem

\* updateProduct(id, {basePrice, isActive})
UpdateProduct(productId, basePrice, isActive) ==
  /\ fn.spec = "cart"
  /\ Len(fn.calls) < MaxCalls
  /\ product' = [product EXCEPT ![productId].basePrice = basePrice,
                                ![productId].isActive = isActive]
  /\ fn' = [fn EXCEPT !.calls = Append(@, [type |-> "UPDATE_PRODUCT",
                                           productId |-> productId, quantity |-> 0])]
  /\ UNCHANGED <<conversation, orders, recommendation, hs, received, cleared>>

\* processCheckout: decrementStock(item.productId, Number(item.quantity)) for
\* one line of an order, the quantity being whatever the cart line held
CallDecrementStock(productId, quantity) ==
  /\ fn.spec = "cart"
  /\ Len(fn.calls) < MaxCalls
  /\ product' = [product EXCEPT ![productId] = decrementStock(@, quantity)]
  /\ fn' = [fn EXCEPT !.calls = Append(@, [type |-> "DECREMENT_STOCK",
                                           productId |-> productId, quantity |-> 0])]
  /\ UNCHANGED <<conversation, orders, recommendation, hs, received, cleared>>

\* case ADD_TO_CART of executeActions calls addToCart when
\* `action.data.productId && action.data.quantity` is truthy
AdminNext ==
  \/ \E p \in ProductIds, q \in {-1, 0, 1, 6, 11} : q # 0 /\ CallAddToCart(p, q)
  \/ \E p \in ProductIds : CallRemoveFromCart(p)
  \/ CallClearCart
  \/ \E p \in ProductIds, isActive \in BOOLEAN :
        \E basePrice \in {product[p].basePrice, 650} :
           UpdateProduct(p, basePrice, isActive)
  \/ \E p \in ProductIds, q \in {-1, 1, 2, 4} : CallDecrementStock(p, q)

AdminSpec == CartInit /\ [][AdminNext]_vars

(***************************************************************************)
(* HistorySpec: messages of one customer handled one after the other (the   *)
(* first handler alone, no session expiring), each reply a batch of         *)
(* ADD_TO_CART actions.  The behaviour starts with the row that fn.earlier  *)
(* earlier messages, numbered 1 - fn.earlier .. 0, have left.               *)
(***************************************************************************)
MaxEarlier == 6         \* messages handled before the behaviour starts

HistoryInit ==
  /\ \E earlier \in 0..MaxEarlier :
       /\ fn = [spec |-> "history", earlier |-> earlier]
       /\ conversation =
            [c \in Customers |->
               IF earlier = 0 THEN NoConversation
               ELSE ConversationRow(
                      getDefaultState,
                      lastN([i \in 1..(2 * earlier) |->
                               [role |-> IF i % 2 = 1 THEN "user" ELSE "assistant",
                                msg |-> ((i + 1) \div 2) - earlier]],
                            MAX_MESSAGE_HISTORY))]
  /\ cleared = [c \in Customers |-> [count |-> 0, lines |-> {}, messages |-> {}]]
  /\ product = InitialProducts
  /\ orders = <<>>
  /\ recommendation = SeedRecommendations
  /\ hs = [h \in Handlers |-> IdleLocals]
  /\ received = 0

HistoryNext ==
  \/ \E c \in Customers, text \in MessageTexts :
        ReceiveMessage(FirstHandler, c, "text", text, NoGeo, Coord(0), FALSE)
  \/ UpdateStateWrite(FirstHandler)
  \/ \E p \in ProductIds, q \in Quantities : ActAddToCart(FirstHandler, p, q)
  \/ FinishActions(FirstHandler)
  \/ SaveHistory(FirstHandler)

HistorySpec == HistoryInit /\ [][HistoryNext]_vars

(***************************************************************************)
(* OrderNumberSpec: one checkout started on an order table that already     *)
(* holds orders of the day, their sequence numbers being any subset of       *)
(* 1..MaxSequence.  The handler is a running async function: its next step  *)
(* is always taken (weak fairness).                                          *)
(***************************************************************************)
MaxSequence == 5        \* largest sequence number of an order already stored

OrderNumberInit ==
  /\ conversation = [c \in Customers |-> ReadySession]
  /\ cleared = [c \in Customers |-> [count |-> 0, lines |-> {}, messages |-> {}]]
  /\ product = InitialProducts
  /\ \E S \in SUBSET (1..MaxSequence) :
        orders = LET numbers == without([i \in 1..MaxSequence |-> i], (1..MaxSequence) \ S)
                 IN [k \in 1..Len(numbers) |->
                       newOrder(numbers[k], "c1", ReadySession.state, 0)]
  /\ recommendation = SeedRecommendations
  /\ hs = [h \in Handlers |->
             IF h = FirstHandler
               THEN [IdleLocals EXCEPT !.pc = "actions", !.msg = 1,
                                       !.state = ReadySession.state]
               ELSE IdleLocals]
  /\ received = 1
  /\ fn = FnIdle

OrderNumberNext ==
  \/ ActConfirmOrder(FirstHandler)
  \/ GenerateOrderNumberCount(FirstHandler)
  \/ GenerateOrderNumberCheck(FirstHandler)
  \/ CreateOrder(FirstHandler)

OrderNumberSpec ==
  OrderNumberInit /\ [][OrderNumberNext]_vars /\ WF_vars(OrderNumberNext)

(***************************************************************************)
(* Properties                                                              *)
(***************************************************************************)

\* C1: two confirm-order actions issued in quick succession for one session
\* with a cart and a delivery location (in one batch, or in two messages
\* handled concurrently) create one Order, not two: no cart line is a line
\* item of two Orders.
C1_TwoConfirmsOneOrder ==
  \A i, j \in 1..Len(orders) :
     i # j => lineIds(orders[i].items) \cap lineIds(orders[j].items) = {}

\* C2: addToCart(P, q1) followed by addToCart(P, q2) on a session with an
\* empty cart leaves exactly one cart line for P, with quantity q1 + q2 and
\* total (q1 + q2) x the unit price of P.
C2_AddTwiceAccumulates ==
  (/\ fn.spec = "cart"
   /\ Len(fn.calls) = 2
   /\ fn.calls[1].type = "ADD_TO_CART"
   /\ fn.calls[2].type = "ADD_TO_CART"
   /\ fn.calls[1].productId = fn.calls[2].productId)
  => LET cart == conversation[CartCustomer].state.cart
         P == fn.calls[1].productId
         q == fn.calls[1].quantity + fn.calls[2].quantity
     IN /\ Len(cart) = 1
        /\ cart[1].productId = P
        /\ cart[1].quantity = q
        /\ cart[1].totalPrice = q * product[P].basePrice
        /\ cart[1].unitPrice = product[P].basePrice

C2_Witness ==
  /\ fn.spec = "cart"
  /\ fn.calls = <<[type |-> "ADD_TO_CART", productId |-> "tomatoes", quantity |-> 1],
                  [type |-> "ADD_TO_CART", productId |-> "tomatoes", quantity |-> 2]>>
  /\ conversation[CartCustomer].state.cart[1].quantity = 3
  /\ conversation[CartCustomer].state.cart[1].totalPrice = 360

\* C3: in every reachable state, whatever the interleaving of add-to-cart,
\* remove-from-cart, clear-cart and checkout, a cart (the persisted one, and
\* the one a handler holds or is about to write) has at most one line per
\* productId.
C3_OneLinePerProduct ==
  LET unique(cart) == \A i, j \in 1..Len(cart) :
                         cart[i].productId = cart[j].productId => i = j
  IN /\ \A c \in Customers : conversation[c].exists => unique(conversation[c].state.cart)
     /\ \A h \in Handlers : unique(hs[h].state.cart) /\ unique(hs[h].wr.cart)

\* an add of a product already in a two-line cart has been written
C3_Witness ==
  \E c \in Customers :
     /\ conversation[c].exists
     /\ Len(conversation[c].state.cart) = 2
     /\ \E i \in 1..2 : conversation[c].state.cart[i].quantity >= 2

\* C4: a checkout called with an empty cart or without a delivery location
\* fails with a validation error and changes neither the orders, nor the
\* persisted session, nor the stock, nor the recommendation edges; no Order
\* ever has an empty item list or an empty delivery location.
C4_InvalidCheckoutFails ==
  /\ [](\A i \in 1..Len(orders) :
          Len(orders[i].items) > 0 /\ orders[i].deliveryLocation # "")
  /\ [][\A h \in Handlers :
          (/\ ActConfirmOrder(h)
           /\ (Len(hs[h].state.cart) = 0 \/ hs[h].state.deliveryLocation = ""))
          => /\ hs'[h].pc = "actions"
             /\ hs'[h].error = IF Len(hs[h].state.cart) = 0
                                 THEN "Cart is empty" ELSE "Delivery location is required"
             /\ UNCHANGED <<conversation, product, orders, recommendation>>]_vars

\* a checkout of a cart without a delivery location has just failed
C4_Witness ==
  \E h \in Handlers :
     /\ hs[h].error = "Delivery location is required"
     /\ Len(hs[h].state.cart) > 0
     /\ hs[h].pc = "actions"

\* C5: once a read has found a session's inactivity window elapsed and the
\* expired record is deleted, no cart line and no history entry of the
\* deleted record is visible to a later read of the customer's session: the
\* persisted session holds none of them.
C5_ExpiredRecordGone ==
  \A c \in Customers :
     conversation[c].exists =>
        /\ lineIds(conversation[c].state.cart) \cap cleared[c].lines = {}
        /\ messageIds(conversation[c].messageHistory) \cap cleared[c].messages = {}

C7_PathsAgree ==
  fn.spec = "quote" =>
    LET quotes == {fn[p].quote : p \in {p \in {"known", "pin", "text"} :
                                          fn[p].asked /\ fn[p].quote.found}}
    IN \A a, b \in quotes :
          a.distanceKm = b.distanceKm =>
             /\ a.zone = b.zone
             /\ a.fee = b.fee
             /\ a.minimumOrderRequired = b.minimumOrderRequired

\* the three paths have quoted the same distance for a vegetables-only cart
C7_Witness ==
  /\ fn.spec = "quote"
  /\ fn.known.asked /\ fn.pin.asked /\ fn.text.asked
  /\ ~fn.text.known.found /\ fn.text.quote.found
  /\ fn.known.distanceKm = 3
  /\ fn.pin.quote.distanceKm = 3
  /\ fn.text.quote.distanceKm = 3
  /\ classifyCart(fn.session.cart) = "vegOnly"

\* C8: a gazetteer name embedded in a sentence resolves to that place's
\* fixed distance without a geocoder call: "near Kondele junction on
\* Kakamega road" resolves to the distance of Kondele.
C8_EmbeddedNameResolves ==
  (/\ fn.spec = "quote"
   /\ fn.text.asked
   /\ fn.text.text.id = "near Kondele junction on Kakamega road")
  => /\ fn.text.known.found
     /\ fn.text.quote.found
     /\ \E i \in 1..Len(KNOWN_LOCATIONS) :
           /\ KNOWN_LOCATIONS[i].name = "kondele"
           /\ fn.text.quote.distanceKm = KNOWN_LOCATIONS[i].distanceKm

\* C9: when the closest candidate of the geocoder is farther than 100 km in
\* a straight line, resolution ends as it does for an empty geocoder
\* response: the geocoder path gives no quote and the session gets the
\* delivery fields it gets for the empty response.
C9_FarCandidateIsNotFound ==
  (fn.spec = "quote" /\ fn.text.asked)
  => LET geo == fn.text.geo
         allFar(results) == /\ Len(results) > 0
                            /\ \A i \in 1..Len(results) : results[i].straight10 > 1000
         closestIsFar == /\ geo.biased.ok
                         /\ \/ allFar(geo.biased.results)
                            \/ /\ Len(geo.biased.results) = 0
                               /\ geo.broad.ok
                               /\ allFar(geo.broad.results)
     IN closestIsFar =>
          /\ fn.text.quote = getDeliveryQuote(fn.text.text,
                                              classifyCart(fn.session.cart), EmptyGeo)
          /\ fn.text.resolved = resolveText(fn.session, fn.text.text, EmptyGeo)
          /\ ~fn.text.known.found =>
                /\ ~fn.text.quote.found
                /\ (parseKmFromText(fn.text.text.words) = Null =>
                      /\ fn.text.resolved.locationNotFound
                      /\ fn.text.resolved.state = fn.session)

\* a far candidate for a text that is no gazetteer name, in a session that
\* holds an earlier delivery snapshot
C9_Witness ==
  /\ fn.spec = "quote"
  /\ fn.text.asked
  /\ fn.text.text.id = "my place"
  /\ fn.text.geo.biased.ok
  /\ Len(fn.text.geo.biased.results) = 2
  /\ fn.text.geo.biased.results[2].straight10 = 1001
  /\ fn.session.deliveryLocation # ""
  /\ fn.text.resolved.locationNotFound

\* C10: updateRecommendationsFromOrder on n distinct products creates (at the
\* default strength) or increments (by one) each of the n(n-1) directed edges
\* between two distinct products of the order, once per run, and leaves
\* every other edge as it was.
C10_PairsUpdatedOnce ==
  fn.spec = "rec" =>
    LET inOrder(p) == \E i \in 1..Len(fn.items) : fn.items[i] = p
        n == Len(fn.items)
    IN /\ \A a, b \in ProductIds :
            recommendation[<<a, b>>] =
              IF a # b /\ inOrder(a) /\ inOrder(b) /\ fn.runs > 0
                THEN IF fn.start[<<a, b>>] > 0 THEN fn.start[<<a, b>>] + fn.runs
                     ELSE 1 + (fn.runs - 1)
                ELSE fn.start[<<a, b>>]
       /\ fn.runs > 0 =>
            Cardinality({e \in ProductIds \X ProductIds :
                           recommendation[e] # fn.start[e]}) = n * (n - 1)

\* two runs on three products from the seeded graph
C10_Witness ==
  /\ fn.spec = "rec"
  /\ fn.runs = 2
  /\ Len(fn.items) = 3
  /\ fn.start = SeedRecommendations
  /\ recommendation[<<"tilapia", "tomatoes">>] = 7
  /\ recommendation[<<"tomatoes", "tilapia">>] = 2

\* C11: getRecommendations returns at most 3 products, none of them in the
\* cart, each the target of an edge of strength >= 2 from a product of the
\* cart, each active and in stock, and none twice.
C11_RecommendIsSafe ==
  (fn.spec = "recommend" /\ fn.asked)
  => LET inCart(p) == \E i \in 1..Len(fn.cart) : fn.cart[i].productId = p
     IN /\ Len(fn.result) <= 3
        /\ \A i \in 1..Len(fn.result) :
              /\ ~inCart(fn.result[i])
              /\ \E k \in 1..Len(fn.rows) :
                    /\ inCart(fn.rows[k].productId)
                    /\ fn.rows[k].recommendedId = fn.result[i]
                    /\ fn.rows[k].strength >= 2
              /\ fn.catalog[fn.result[i]].isActive
              /\ fn.catalog[fn.result[i]].availability = "IN_STOCK"
              /\ \A j \in 1..Len(fn.result) : fn.result[j] = fn.result[i] => j = i

\* the cap cuts a fourth eligible product off
C11_Witness ==
  /\ fn.spec = "recommend"
  /\ fn.asked
  /\ fn.rows = BaseEdges
  /\ fn.catalog = AllInStock
  /\ Len(fn.cart) = 1
  /\ fn.cart[1].productId = "tilapia"
  /\ Len(fn.result) = 3
  /\ \A i \in 1..3 : fn.result[i] # "broiler"

\* C12: two concurrently handled messages of one customer never lose a
\* session update.  Where the handlers only add to the cart, a product that
\* has a line in the persisted cart keeps a line in it, whatever the
\* interleaving of the reads and writes of the two handlers.
C12_NoLostUpdate ==
  [][\A c \in Customers :
       (conversation[c].exists /\ conversation'[c].exists)
       => {conversation[c].state.cart[i].productId :
             i \in 1..Len(conversation[c].state.cart)}
          \subseteq {conversation'[c].state.cart[i].productId :
                       i \in 1..Len(conversation'[c].state.cart)}]_vars

\* C13: no two Orders carry the same order number, whatever the interleaving
\* of the checkouts that generate and insert them.
C13_OrderNumbersDistinct ==
  \A i, j \in 1..Len(orders) :
    orders[i].orderNumber = orders[j].orderNumber => i = j

\* two messages have each ended a checkout with an Order
C13_Witness ==
  /\ Len(orders) = 2
  /\ orders[1].msg # orders[2].msg
  /\ orders[1].orderNumber # orders[2].orderNumber

\* C14: a collision on the order number never fails a checkout.  The insert
\* of a checkout that passed its checks either creates the Order or sends
\* the checkout back to the generation of a number; it never ends the
\* checkout with an error.
C14_CollisionNeverFails ==
  [][\A h \in Handlers :
       (hs[h].pc = "orderCreate" /\ hs'[h].pc # "orderCreate")
       => /\ hs'[h].pc \in {"orderConfirm", "orderCount", "orderCheck"}
          /\ hs'[h].error = ""]_vars

\* C15: once the Order of a checkout is created, the failure of one of the
\* steps that follow (notification, stock decrement, recommendation update)
\* neither removes the Order nor keeps the checkout from its remaining
\* steps, the clearing of the cart included: a step of a checkout that is
\* past the creation leaves every Order in place and leads to the same or a
\* later post-creation step.
C15_PostCreationFailureIsolated ==
  [][\A h \in Handlers :
       hs[h].pc \in {"orderEmail", "orderStock", "orderRecommend"}
       => /\ Len(orders') >= Len(orders)
          /\ orders'[hs[h].order].orderNumber = orders[hs[h].order].orderNumber
          /\ hs'[h].pc \in {"orderEmail", "orderStock", "orderRecommend",
                            "orderClearCart"}]_vars

\* C16: the line items of an Order are the lines of the persisted cart at the
\* moment the CONFIRM_ORDER action is applied, the lines added or removed by
\* earlier actions of the same batch included: when the action starts a
\* checkout, the cart the checkout is handed is the cart of the customer's
\* row, and the insert copies that cart and its sum into the Order.  Stated
\* for a message that is handled alone, so that only the actions of its own
\* batch have touched the row since the handler read it.
C16_OrderItemsArePersistedCart ==
  [][\A h \in Handlers :
       /\ (received = 1 /\ hs[h].pc = "actions" /\ hs'[h].pc = "orderCheck")
          => /\ conversation[hs[h].cust].exists
             /\ hs'[h].state.cart = conversation[hs[h].cust].state.cart
       /\ (hs[h].pc = "orderCreate" /\ hs'[h].pc = "orderConfirm")
          => /\ orders'[hs'[h].order].items = hs[h].state.cart
             /\ orders'[hs'[h].order].totalAmount = sumTotalPrice(hs[h].state.cart)]_vars

\* C17: a text received while the session is in REQUESTING_LOCATION and
\* resolved to a quote is followed, before the language step, by a persisted
\* session in CONFIRMING_ORDER whose delivery location is the text and whose
\* distance, fee, fee reason and zone are the quote's, and the language step
\* is handed that quote: the handler goes from the read straight to the
\* write of the snapshot, and right after the write the row holds it while
\* the handler, now before the language step, still holds the quote.
C17_QuoteIsPersistedBeforeReply ==
  [][\A h \in Handlers :
       /\ ( /\ hs[h].pc = "idle" /\ hs'[h].pc # "idle"
            /\ conversation[hs'[h].cust].exists
            /\ conversation[hs'[h].cust].state.step = REQUESTING_LOCATION
            /\ hs'[h].quote.found /\ hs'[h].state.deliveryLocation # PinnedLabel )
          => /\ hs'[h].pc = "updateState"
             /\ hs'[h].after = "actions"
             /\ hs'[h].wr = hs'[h].state
       /\ ( /\ hs[h].pc = "updateState" /\ hs'[h] # hs[h] /\ hs[h].done = 0
            /\ hs[h].quote.found /\ hs[h].state.deliveryLocation # PinnedLabel )
          => /\ hs'[h].pc = "actions"
             /\ hs'[h].quote = hs[h].quote
             /\ conversation'[hs[h].cust].exists
             /\ LET state == conversation'[hs[h].cust].state
                IN  /\ state.step = CONFIRMING_ORDER
                    /\ state.deliveryDistanceKm = hs[h].quote.distanceKm
                    /\ state.deliveryFee = hs[h].quote.fee
                    /\ state.deliveryFeeReason = hs[h].quote.feeReason
                    /\ state.deliveryZone = hs[h].quote.zone
                    /\ state.deliveryLocation \in {t.id : t \in MessageTexts}]_vars

\* the text of a second message has been resolved and written, and its
\* handler is about to call the language step
C17_Witness ==
  \E h \in Handlers :
    /\ hs[h].pc = "actions" /\ hs[h].done = 0
    /\ hs[h].msg = 2
    /\ hs[h].quote.found
    /\ hs[h].state.deliveryLocation = "Ahero"
    /\ conversation[hs[h].cust].exists
    /\ conversation[hs[h].cust].state.step = CONFIRMING_ORDER
    /\ conversation[hs[h].cust].state.deliveryFee = hs[h].quote.fee

\* C18: a text received while the session is in REQUESTING_LOCATION for which
\* the gazetteer, the geocoder and the kilometre parse all give nothing
\* leaves the session as it is: the step stays REQUESTING_LOCATION, no
\* delivery field changes, nothing is written, and the language step is
\* called with the location-not-found flag and no quote.
C18_UnresolvedTextLeavesSession ==
  [][\A h \in Handlers :
       ( /\ hs[h].pc = "idle" /\ hs'[h].pc # "idle"
         /\ conversation[hs'[h].cust].exists
         /\ ~conversation'[hs'[h].cust].expired
         /\ conversation[hs'[h].cust].state.step = REQUESTING_LOCATION
         /\ ~hs'[h].quote.found )
       => /\ hs'[h].locationNotFound
          /\ hs'[h].pc = "actions"
          /\ hs'[h].done = 0
          /\ hs'[h].state = conversation[hs'[h].cust].state
          /\ conversation'[hs'[h].cust].state = conversation[hs'[h].cust].state]_vars

\* "my place" arrived in REQUESTING_LOCATION, and the language step is about
\* to be told that the location was not found
C18_Witness ==
  \E h \in Handlers :
    /\ hs[h].pc = "actions" /\ hs[h].done = 0
    /\ hs[h].locationNotFound
    /\ ~hs[h].quote.found
    /\ hs[h].state.step = REQUESTING_LOCATION
    /\ conversation[hs[h].cust].exists
    /\ conversation[hs[h].cust].state = hs[h].state

\* C19: the actions of a batch are attempted in order, and an action that
\* fails is logged and does not stop the ones after it: the loop takes the
\* positions one by one, and a step that ends an action with an error brings
\* the handler back to the head of the loop with that position counted, from
\* where the next position is dispatched while the batch has one.
C19_FailedActionDoesNotStopBatch ==
  [][\A h \in Handlers :
       /\ hs'[h].done # hs[h].done
          => \/ hs'[h].done = hs[h].done + 1
             \/ hs'[h].pc = "idle"
       /\ (hs'[h].error # "" /\ hs'[h] # hs[h])
          => /\ hs'[h].pc = "actions"
             /\ hs'[h].failed = hs'[h].done
             /\ hs'[h].done \in {hs[h].done, hs[h].done + 1}
             /\ (hs'[h].done < MaxBatch => canDispatch(h)')]_vars

\* the first action of a batch failed and the second one added a line that
\* is now in the persisted cart
C19_Witness ==
  \E h \in Handlers :
    /\ hs[h].pc = "actions" /\ hs[h].done = 2
    /\ hs[h].failed = 1 /\ hs[h].error = ""
    /\ conversation[hs[h].cust].exists
    /\ \E i \in 1..Len(conversation[hs[h].cust].state.cart) :
          conversation[hs[h].cust].state.cart[i].by = <<hs[h].msg, 2>>

\* C20: the status of an Order only moves PENDING -> CONFIRMED -> EMAIL_SENT.
\* An Order is inserted as PENDING; it becomes EMAIL_SENT only from CONFIRMED
\* and only in the step of its checkout in which the notification was sent;
\* when the notification fails the Order stays CONFIRMED and in place, and
\* the checkout goes on to the stock decrement, the recommendation update
\* and the clearing of the cart.
C20_StatusMovesForward ==
  [][/\ Len(orders') >= Len(orders)
     /\ \A i \in 1..Len(orders') :
          IF i > Len(orders) THEN orders'[i].status = "PENDING"
          ELSE \/ orders'[i].status = orders[i].status
               \/ orders[i].status = "PENDING" /\ orders'[i].status = "CONFIRMED"
               \/ /\ orders[i].status = "CONFIRMED" /\ orders'[i].status = "EMAIL_SENT"
                  /\ \E h \in Handlers : /\ hs[h].pc = "orderEmail" /\ hs[h].order = i
                                         /\ hs'[h].emailSent
     /\ \A h \in Handlers :
          /\ (hs[h].pc = "orderEmail" /\ hs'[h] # hs[h] /\ ~hs'[h].emailSent)
             => /\ orders'[hs[h].order] = orders[hs[h].order]
                /\ orders[hs[h].order].status = "CONFIRMED"
                /\ hs'[h].pc = "orderStock"
          /\ (hs[h].pc = "orderStock" /\ hs'[h] # hs[h])
             => hs'[h].pc \in {"orderStock", "orderRecommend"}
          /\ (hs[h].pc = "orderRecommend" /\ hs'[h] # hs[h])
             => hs'[h].pc = "orderClearCart"
          /\ (hs[h].pc = "orderClearCart" /\ hs'[h] # hs[h])
             => /\ hs'[h].pc \in {"updateState", "clearState"}
                /\ hs'[h].wr.cart = <<>>]_vars

\* a checkout whose notification failed has finished: its Order is still
\* CONFIRMED, the stock is decremented and the cart is cleared
C20_Witness ==
  \E i \in 1..Len(orders) :
    /\ orders[i].status = "CONFIRMED"
    /\ \A h \in Handlers : hs[h].pc = "idle"
    /\ Len(orders) = 1
    /\ product # InitialProducts
    /\ conversation[orders[i].customerId].exists
    /\ conversation[orders[i].customerId].state.cart = <<>>

\* C21: a webhook event delivered again within the deduplication window of
\* 60 s from its first acceptance does not start the message handler again,
\* whatever the payload format: two starts of the handler for one message id
\* are more than 60 s apart.
C21_HandledOncePerWindow ==
  fn.spec = "webhook"
  => \A id \in MessageIds : \A i, j \in 1..Len(fn.handled[id]) :
        i < j => fn.handled[id][j] - fn.handled[id][i] > DEDUP_TTL_MS

\* C22: sendMessageWithRetry makes at most maxRetries (3) send attempts.  It
\* stops at the first attempt that succeeds and returns success; it returns
\* failure only after exactly maxRetries failed attempts; it waits between
\* two attempts and not after the last one; and whatever it returns, the
\* handler goes on to save the history entry of the message.
C22_BoundedRetry ==
  fn.spec = "turn"
  => /\ Len(fn.sends) <= MAX_RETRIES
     /\ \A i \in 1..Len(fn.sends) : fn.sends[i] => i = Len(fn.sends)
     /\ fn.result = "success"
        <=> (Len(fn.sends) > 0 /\ fn.sends[Len(fn.sends)])
     /\ fn.result = "failure"
        <=> (Len(fn.sends) = MAX_RETRIES /\ ~fn.sends[MAX_RETRIES])
     /\ Len(fn.waits) = IF fn.result = "none" THEN Len(fn.sends) ELSE Len(fn.sends) - 1
     /\ \A i \in 1..Len(fn.waits) : fn.waits[i] = (2 ^ i) * 1000
     /\ fn.result # "none"
        => \/ fn.pc = "history"
           \/ fn.history = "saved"
           \/ fn.history = "failed"
     /\ (fn.pc = "done" /\ fn.result # "none" /\ fn.history # "failed")
        => fn.history = "saved"

\* three attempts failed, two waits were made, and the history entry of the
\* message is saved
C22_Witness ==
  /\ fn.spec = "turn"
  /\ fn.result = "failure"
  /\ fn.sends = <<FALSE, FALSE, FALSE>>
  /\ fn.waits = <<2000, 4000>>
  /\ fn.history = "saved"
  /\ fn.pc = "done"

\* C23: for one handled inbound message at most one text reply is delivered
\* to the customer: the reply of the assistant and the apology are never
\* both delivered.
C23_AtMostOneReply ==
  fn.spec = "turn" => Len(fn.delivered) <= 1

\* C24: when the call of the language step fails, or its output cannot be
\* parsed into the expected structure, the turn yields a safe default reply
\* and no actions: the response carries one of the fixed sentences or the
\* cleaned prose of the output, never raw output; no action of the turn is
\* executed; and the handler ends.
C24_UnparsableOutputIsSafe ==
  (/\ fn.spec = "turn"
   /\ fn.pc # "language"
   /\ \/ fn.api # "text"
      \/ /\ ~fn.text.direct
         /\ ~(fn.text.regex /\ fn.text.balanced /\ fn.text.extracted)
      \/ ~fn.text.iterable)
  => /\ fn.executed = <<>>
     /\ fn.response.actions = <<>>
     /\ fn.response.message \in {"error", "retry", "prose", "parsed"}
     /\ fn.response.message = "parsed" => ~fn.response.iterable
     /\ fn.pc \in {"actions", "send", "history", "apology", "done"}

\* C25: add-to-cart changes the cart only for a product that exists and is
\* active; for an inactive product the call is a no-op and the persisted
\* session is unchanged.
C25_InactiveProductIsRejected ==
  [][(/\ fn.spec = "cart"
      /\ Len(fn'.calls) = Len(fn.calls) + 1
      /\ fn'.calls[Len(fn'.calls)].type = "ADD_TO_CART"
      /\ ~product[fn'.calls[Len(fn'.calls)].productId].isActive)
     => conversation' = conversation]_vars

\* C26: every change of a session's step follows an edge of Greeting ->
\* Browsing <-> CartManagement <-> RequestingLocation -> ConfirmingOrder ->
\* OrderPlaced, or is the reset to Greeting; in particular the step becomes
\* ConfirmingOrder only when the step before was RequestingLocation, for a
\* text and for a pin alike.
C26_StepFollowsEdges ==
  [][\A c \in Customers :
       LET before == IF conversation[c].exists THEN conversation[c].state.step
                     ELSE GREETING
           after == conversation'[c].state.step
       IN  (conversation'[c].exists /\ after # before)
             => \/ after = GREETING
                \/ <<before, after>> \in
                     {<<GREETING, BROWSING>>,
                      <<BROWSING, CART_MANAGEMENT>>,
                      <<CART_MANAGEMENT, BROWSING>>,
                      <<CART_MANAGEMENT, REQUESTING_LOCATION>>,
                      <<REQUESTING_LOCATION, CART_MANAGEMENT>>,
                      <<REQUESTING_LOCATION, CONFIRMING_ORDER>>,
                      <<CONFIRMING_ORDER, ORDER_PLACED>>}]_vars

\* C27: a CONFIRM_ORDER action whose checkout succeeds moves the session from
\* ConfirmingOrder to OrderPlaced: when processCheckout has created the
\* order, sent the email, decremented the stock and updated the
\* recommendations, the state its last statement reads in ConfirmingOrder is
\* saved with the step OrderPlaced.
C27_CheckoutPlacesOrder ==
  [][\A h \in Handlers :
       (/\ hs[h].pc = "orderClearCart"
        /\ hs'[h].pc # "orderClearCart"
        /\ conversation[hs[h].cust].exists
        /\ ~conversation[hs[h].cust].expired
        /\ conversation[hs[h].cust].state.step = CONFIRMING_ORDER)
       => hs'[h].wr.step = ORDER_PLACED]_vars

\* C28: every line of the saved cart has total = quantity x the unit price
\* captured when the line was created, also when the catalog price of the
\* product changes between two adds.
C28_LineTotalIsQuantityTimesUnitPrice ==
  (fn.spec = "cart" /\ \A k \in 1..Len(fn.calls) : fn.calls[k].quantity >= 0) =>
    \A c \in Customers :
      conversation[c].exists =>
        \A i \in 1..Len(conversation[c].state.cart) :
          conversation[c].state.cart[i].totalPrice
            = conversation[c].state.cart[i].quantity * conversation[c].state.cart[i].unitPrice

\* C29: every line of the saved cart has a quantity above zero, whatever
\* quantities the ADD_TO_CART actions carry.
C29_LineQuantityIsPositive ==
  fn.spec = "cart" =>
    \A c \in Customers :
      conversation[c].exists =>
        \A i \in 1..Len(conversation[c].state.cart) :
          conversation[c].state.cart[i].quantity > 0

\* C30: the saved cart has at most MAX_ITEMS lines and no line has a quantity
\* above MAX_QUANTITY_PER_ITEM, here when every ADD_TO_CART action carries a
\* quantity of 1..MAX_QUANTITY_PER_ITEM.
C30_CartWithinLimits ==
  (fn.spec = "cart" /\ \A k \in 1..Len(fn.calls) :
                         fn.calls[k].quantity \in 0..MAX_QUANTITY_PER_ITEM) =>
    \A c \in Customers :
      conversation[c].exists =>
        /\ Len(conversation[c].state.cart) <= MAX_ITEMS
        /\ \A i \in 1..Len(conversation[c].state.cart) :
             conversation[c].state.cart[i].quantity <= MAX_QUANTITY_PER_ITEM

\* C31: a bounded stock counter is never negative: a decrement of checkout
\* leaves it at zero or above, a decrement that leaves it at zero leaves the
\* product out of stock, and a product without a counter (unlimited) is left
\* as it was.
C31_StockNeverNegative ==
  [][\A p \in ProductIds :
       (/\ fn.spec = "cart"
        /\ Len(fn'.calls) = Len(fn.calls) + 1
        /\ fn'.calls[Len(fn'.calls)].type = "DECREMENT_STOCK"
        /\ fn'.calls[Len(fn'.calls)].productId = p)
       => IF product[p].stockQuantity = Null
            THEN product'[p] = product[p]
            ELSE /\ product'[p].stockQuantity # Null
                 /\ product'[p].stockQuantity >= 0
                 /\ product'[p].stockQuantity = 0
                      => product'[p].availability = "OUT_OF_STOCK"]_vars

\* two decrements have left the counter of tomatoes (3 at the start) at zero
\* and the product out of stock; tilapia, which has no counter, is untouched
C31_Witness ==
  /\ fn.spec = "cart"
  /\ Len(fn.calls) = 2
  /\ fn.calls[1].type = "DECREMENT_STOCK" /\ fn.calls[2].type = "DECREMENT_STOCK"
  /\ product["tomatoes"].stockQuantity = 0
  /\ product["tomatoes"].availability = "OUT_OF_STOCK"
  /\ product["tilapia"] = InitialProducts["tilapia"]

\* C32: after any sequence of handled messages the stored history has at most
\* MAX_MESSAGE_HISTORY entries, and they are the most recent entries in their
\* original order (user then assistant of each message, oldest message
\* first), the older ones having been evicted.  `saved` is the number of the
\* last message whose history write is done.
C32_HistoryIsMostRecent ==
  fn.spec = "history" =>
    \A c \in Customers :
      LET saved == IF hs[FirstHandler].pc = "idle" THEN received ELSE received - 1
          total == 2 * (fn.earlier + saved)
          history == IF conversation[c].exists THEN conversation[c].messageHistory
                     ELSE <<>>
      IN  /\ Len(history) <= MAX_MESSAGE_HISTORY
          /\ Len(history) = IF total <= MAX_MESSAGE_HISTORY THEN total
                            ELSE MAX_MESSAGE_HISTORY
          /\ \A i \in 1..Len(history) :
               history[i] = [role |-> IF (Len(history) - i) % 2 = 0 THEN "assistant"
                                      ELSE "user",
                             msg |-> saved - ((Len(history) - i) \div 2)]

\* eight messages have been handled, the last two in this behaviour: the
\* history holds the ten entries of messages -2 .. 2, the oldest three
\* messages are gone
C32_Witness ==
  /\ fn.spec = "history"
  /\ fn.earlier = 6
  /\ received = 2
  /\ hs[FirstHandler].pc = "idle"
  /\ Len(conversation["c1"].messageHistory) = MAX_MESSAGE_HISTORY
  /\ conversation["c1"].messageHistory[1] = [role |-> "user", msg |-> -2]
  /\ conversation["c1"].messageHistory[10] = [role |-> "assistant", msg |-> 2]

\* C33: starting from an empty recommendation graph, after any sequence of
\* completed orders the graph is symmetric: the edge a -> b exists exactly
\* when b -> a exists, and both have the same strength (0 stands for no
\* edge).
C33_GraphIsSymmetric ==
  (fn.spec = "rec" /\ fn.initial = NoRecommendations) =>
    \A a, b \in ProductIds : recommendation[<<a, b>>] = recommendation[<<b, a>>]

\* from the empty graph, orders of different carts have left edges of
\* different strengths, each equal to its reverse
C33_Witness ==
  /\ fn.spec = "rec"
  /\ fn.initial = NoRecommendations
  /\ fn.later > 0
  /\ recommendation[<<"tilapia", "tomatoes">>] = 3
  /\ recommendation[<<"tomatoes", "tilapia">>] = 3
  /\ recommendation[<<"tilapia", "broiler">>] = 1
  /\ recommendation[<<"broiler", "tilapia">>] = 1
  /\ recommendation[<<"broiler", "tomatoes">>] = 0

\* C34: no update of the recommendation graph for an order creates a
\* self-edge p -> p, and the update for an order with fewer than two distinct
\* products leaves the graph as it was.
C34_NoSelfEdge ==
  [][fn.spec = "rec" =>
       /\ \A p \in ProductIds : recommendation'[<<p, p>>] = recommendation[<<p, p>>]
       /\ \A p \in ProductIds : recommendation'[<<p, p>>] = 0
       /\ (fn'.runs = fn.runs + 1 /\ Cardinality({fn.items[i] : i \in 1..Len(fn.items)}) < 2)
            => recommendation' = recommendation]_vars

\* the update has run for an order of one product, after an order of three
\* products had filled the graph: the graph is what it was
C34_Witness ==
  /\ fn.spec = "rec"
  /\ fn.later = 1
  /\ fn.runs = 1
  /\ Len(fn.items) = 1
  /\ recommendation = fn.start
  /\ \A a, b \in ProductIds : a # b => recommendation[<<a, b>>] > 0

\* C35: a geocoder exchange that fails (fetch throws, non-OK status) or
\* brings no candidate never aborts the handling of the message: the
\* geocoder path gives not-found, the parsed-km path is still tried, and the
\* language step gets either the quote of that path or the not-found flag,
\* with the session untouched in the latter case.
C35_GeocoderFailureIsNotFound ==
  (fn.spec = "quote" /\ fn.text.asked)
  => LET geo == fn.text.geo
         noCandidate(answer) == ~answer.ok \/ Len(answer.results) = 0
         failure == \/ ~geo.biased.ok
                    \/ (Len(geo.biased.results) = 0 /\ noCandidate(geo.broad))
         kmDistance == parseKmFromText(fn.text.text.words)
     IN (failure /\ ~fn.text.known.found) =>
          /\ geocodeLocation(geo) = NotFound
          /\ ~fn.text.quote.found
          /\ IF kmDistance # Null
               THEN /\ fn.text.resolved.quote.found
                    /\ fn.text.resolved.quote.distanceKm = kmDistance
                    /\ ~fn.text.resolved.locationNotFound
                    /\ fn.text.resolved.state.deliveryLocation = fn.text.text.id
               ELSE /\ ~fn.text.resolved.quote.found
                    /\ fn.text.resolved.locationNotFound
                    /\ fn.text.resolved.state = fn.session

\* the fetch of the geocoder failed for "about 10 km": the parsed-km path
\* gave the quote
C35_Witness ==
  /\ fn.spec = "quote"
  /\ fn.text.asked
  /\ fn.text.text.id = "about 10 km"
  /\ ~fn.text.geo.biased.ok
  /\ ~fn.text.quote.found
  /\ fn.text.resolved.quote.found
  /\ fn.text.resolved.quote.distanceKm = 10

\* C36: when several gazetteer names occur in the text as whole words,
\* lookupKnownLocation returns the name of greatest length among them with
\* its distance, and it returns not-found only when no name occurs as whole
\* words.
C36_LongestNameWins ==
  (fn.spec = "quote" /\ fn.text.asked)
  => LET lower == lowerText(fn.text.text.words)
         occurs(i) == nameMatches(KNOWN_LOCATIONS[i].words, lower)
         matching == {i \in 1..Len(KNOWN_LOCATIONS) : occurs(i)}
     IN /\ fn.text.known.found <=> matching # {}
        /\ fn.text.known.found =>
             \E i \in matching :
                /\ fn.text.known.name = KNOWN_LOCATIONS[i].name
                /\ fn.text.known.distanceKm = KNOWN_LOCATIONS[i].distanceKm
                /\ \A j \in matching :
                      Len(KNOWN_LOCATIONS[j].name) <= Len(KNOWN_LOCATIONS[i].name)

\* "kondele" and "kakamega" both occur in the text: the longer name is
\* returned with its 60 km
C36_Witness ==
  /\ fn.spec = "quote"
  /\ fn.text.asked
  /\ fn.text.text.id = "near Kondele junction on Kakamega road"
  /\ fn.text.known.found
  /\ fn.text.known.name = "kakamega"
  /\ fn.text.known.distanceKm = 60

\* C37: getRecommendations returns the strongest eligible targets over all
\* the edges whose source is in the cart.  A target is eligible when it is
\* not in the cart, is active and in stock, and some edge from a cart product
\* to it has strength >= MIN_STRENGTH; its strength is that of its strongest
\* such edge.  The result holds MAX_RECOMMENDATIONS products whenever that
\* many targets are eligible (all of them otherwise), only eligible ones,
\* and no eligible target left out is stronger than one returned.
C37_StrongestEligibleTargets ==
  (fn.spec = "recommend" /\ fn.asked)
  => LET inCart(p) == \E i \in 1..Len(fn.cart) : fn.cart[i].productId = p
         edgesTo(p) == {k \in 1..Len(fn.rows) : /\ inCart(fn.rows[k].productId)
                                                /\ fn.rows[k].recommendedId = p
                                                /\ fn.rows[k].strength >= MIN_STRENGTH}
         eligible == {p \in CatalogIds : /\ ~inCart(p)
                                         /\ fn.catalog[p].isActive
                                         /\ fn.catalog[p].availability = "IN_STOCK"
                                         /\ edgesTo(p) # {}}
         best(p) == CHOOSE s \in {fn.rows[k].strength : k \in edgesTo(p)} :
                      \A k \in edgesTo(p) : fn.rows[k].strength <= s
         returned == {fn.result[i] : i \in 1..Len(fn.result)}
     IN /\ Len(fn.result) = IF Cardinality(eligible) >= MAX_RECOMMENDATIONS
                              THEN MAX_RECOMMENDATIONS ELSE Cardinality(eligible)
        /\ returned \subseteq eligible
        /\ \A p \in returned, q \in eligible \ returned : best(q) <= best(p)

\* C38: after a checkout in which every step succeeds the persisted cart of
\* the customer is empty: the last statement of processCheckout, reached
\* after the order, the notification, the stock and the recommendations,
\* goes to the write of a state whose cart is empty, a delete of the expired
\* row in between keeps that state, and right after the write the row exists
\* with an empty cart.
C38_CheckoutEmptiesCart ==
  [][\A h \in Handlers :
       /\ (hs[h].pc = "orderClearCart" /\ hs'[h] # hs[h])
          => /\ hs'[h].pc \in {"updateState", "clearState"}
             /\ hs'[h].pc = "clearState" => hs'[h].ret = "updateState"
             /\ hs'[h].after = "actions"
             /\ hs'[h].wr.cart = <<>>
       /\ (hs[h].pc = "clearState" /\ hs'[h] # hs[h])
          => hs'[h].wr = hs[h].wr /\ hs'[h].pc = hs[h].ret
       /\ (hs[h].pc = "updateState" /\ hs'[h] # hs[h] /\ hs[h].wr.cart = <<>>)
          => /\ conversation'[hs[h].cust].exists
             /\ conversation'[hs[h].cust].state.cart = <<>>]_vars

\* a checkout has gone through to its last write: the order is there with
\* its lines, the handler is back in the loop and the persisted cart is empty
C38_Witness ==
  /\ Len(orders) = 1
  /\ orders[1].status = "EMAIL_SENT"
  /\ Len(orders[1].items) > 0
  /\ hs[FirstHandler].pc = "actions"
  /\ hs[FirstHandler].done > 0
  /\ hs[FirstHandler].error = ""
  /\ received = 1
  /\ conversation["c1"].exists
  /\ conversation["c1"].state.cart = <<>>

\* C39: applying a REQUEST_LOCATION action changes only the step of the
\* session: the persisted cart and delivery fields right after its write are
\* the persisted cart and delivery fields right before it, the effects of the
\* earlier actions of the same batch included.  Stated for a message that is
\* handled alone, so that only its own batch has touched the row.
C39_RequestLocationKeepsCart ==
  [][\A h \in Handlers :
       (/\ received = 1
        /\ hs[h].pc = "updateState" /\ hs'[h] # hs[h]
        /\ hs[h].done > 0
        /\ hs[h].wr = hs[h].state
        /\ hs[h].wr.step = REQUESTING_LOCATION)
       => LET before == IF conversation[hs[h].cust].exists
                          THEN conversation[hs[h].cust].state ELSE getDefaultState
              after == conversation'[hs[h].cust].state
          IN /\ after.step = REQUESTING_LOCATION
             /\ after.cart = before.cart
             /\ after.deliveryLocation = before.deliveryLocation
             /\ after.deliveryDistanceKm = before.deliveryDistanceKm
             /\ after.deliveryFee = before.deliveryFee
             /\ after.deliveryFeeReason = before.deliveryFeeReason
             /\ after.deliveryZone = before.deliveryZone]_vars

====
